---- MODULE Spec2Model ----
(***************************************************************************)
(* Verification model of the athenian-api pull request mining core:        *)
(*   - the @cached memoization wrapper         (athenian/api/cache.py)     *)
(*   - PullRequestMiner snapshot assembly, its cache postprocessing,       *)
(*     the filter engine and the truncation steps                          *)
(*                     (athenian/api/controllers/miners/github/pull_request.py) *)
(*   - LabelFilter / JIRAFilter compatibility  (controllers/miners/filters.py) *)
(***************************************************************************)
EXTENDS Integers, Sequences, FiniteSets, TLC

None == "None"

\* optional values: <<>> is an absent value (None), <<v>> a present one
Absent == <<>>
Some(v) == <<v>>
The(o) == o[1]

(***************************************************************************)
(* Bounds of the cache layer model.                                        *)
(***************************************************************************)
MaxTime == 3
MaxNumber == 1
MaxWidth == 2
exptime == 2

\* two concurrent callers of the decorated function
Procs == {"call_a", "call_b"}
Numbers == 1..MaxNumber
Widths == 1..MaxWidth

VARIABLES
    memcached,          \* the object cache: cache key -> [payload, exp] or None
    now,                \* wall clock in seconds
    refresh_on_access,  \* decorator option
    postprocess,        \* decorator option: TRUE when a postprocess hook is registered
    pc,                 \* per call: position inside wrapped_cached
    args,               \* per call: bound arguments of the decorated function
    local,              \* per call: local variables result, payload, t
    trace,              \* per call: what the call did and saw (observation only)
    session,            \* the arguments of mine that stay the same between its calls
    miner,              \* the tables of the PullRequestMiner that mine returned last
    facts,              \* the node ids of the facts that mine returned last
    last,               \* the last call of mine: arguments, cache entry found, path taken
    dropped,            \* node ids removed from the returned snapshot so far
    calls,              \* number of calls of mine so far
    drops,              \* number of calls of drop on the returned miner
    fetch,              \* one run of _mine: arguments, wave, results of the sub-fetches
    mined_pr,           \* the MinedPullRequest given to the facts miner
    extracted,          \* what the facts miner did with it
    listing,            \* one iteration over a PullRequestListMiner
    compat,             \* two filters and the labels or issue they are applied to
    engine,             \* one call of the filter engine or of the iteration on a snapshot
    keyed               \* two calls of a @cached function and the cache keys computed for them

cacheVars == <<memcached, now, refresh_on_access, postprocess, pc, args, local, trace>>

callVars == <<refresh_on_access, postprocess, pc, args, local, trace>>

mineVars == <<session, miner, facts, last, dropped, calls, drops>>

\* the variables of the specifications of single functions
unitVars == <<fetch, mined_pr, extracted, listing, compat, engine, keyed>>

\* their value in the specifications that do not use them
UnitIdle ==
    /\ fetch = <<>> /\ mined_pr = <<>> /\ extracted = <<>>
    /\ listing = <<>> /\ compat = <<>> /\ engine = <<>> /\ keyed = <<>>

(***************************************************************************)
(* The decorated function of the cache layer model and its decorator       *)
(* arguments.  The key projection takes "number" only, "width" is an       *)
(* argument that is not part of the key.                                   *)
(***************************************************************************)
Args == [number : Numbers, width : Widths, cache : {None, "client"}]

func(a) == [value |-> a.number + 1, width |-> a.width]

\* the elements of a key tuple are tagged with their Python type
key(a) == <<[int |-> a.number]>>

discover_cache(a) == a.cache

\* A text is a sequence of characters; str(n) of an int
RECURSIVE int_str(_)
int_str(n) ==
    LET Digits == <<"0", "1", "2", "3", "4", "5", "6", "7", "8", "9">>
    IN IF n < 10 THEN <<Digits[n + 1]>> ELSE int_str(n \div 10) \o <<Digits[(n % 10) + 1]>>

\* str(p) of an element of a key tuple
str(p) ==
    IF "int" \in DOMAIN p THEN int_str(p.int)
    ELSE IF "bool" \in DOMAIN p
         THEN (IF p.bool THEN <<"T", "r", "u", "e">> ELSE <<"F", "a", "l", "s", "e">>)
         ELSE p.str

RECURSIVE str_join(_, _)
str_join(sep, parts) ==
    IF parts = <<>> THEN <<>>
    ELSE IF Len(parts) = 1 THEN parts[1]
    ELSE parts[1] \o sep \o str_join(sep, Tail(parts))

\* fmt % (): "%%" prints one "%", any other "%" raises (Absent)
RECURSIVE str_mod(_)
str_mod(fmt) ==
    IF fmt = <<>> THEN Some(<<>>)
    ELSE IF fmt[1] # "%"
         THEN (LET rest == str_mod(Tail(fmt))
               IN IF rest = Absent THEN Absent ELSE Some(<<fmt[1]>> \o The(rest)))
    ELSE IF Len(fmt) >= 2 /\ fmt[2] = "%"
         THEN (LET rest == str_mod(SubSeq(fmt, 3, Len(fmt)))
               IN IF rest = Absent THEN Absent ELSE Some(<<"%">> \o The(rest)))
    ELSE Absent

\* the hash is taken as collision-free: the digest stands for the hashed bytes
xxh64_hexdigest(data) == [xxh64 |-> data]

\* Absent when the formatting raises
gen_cache_key(fmt) ==
    LET full_key == str_mod(fmt)
    IN IF full_key = Absent THEN Absent
       ELSE LET half == Len(The(full_key)) \div 2
                first_half == xxh64_hexdigest(SubSeq(The(full_key), 1, half))
                second_half == xxh64_hexdigest(SubSeq(The(full_key), half + 1,
                                                      Len(The(full_key))))
            IN Some(<<first_half, second_half>>)

\* wrapped_cached: full_name + "|" + "|".join([str(p) for p in props])
wrapped_cached_cache_key(full_name, props) ==
    gen_cache_key(full_name \o <<"|">> \o
                  str_join(<<"|">>, [i \in 1..Len(props) |-> str(props[i])]))

CacheKey(a) == The(wrapped_cached_cache_key(<<"a", "d", "d", "_", "o", "n", "e">>, key(a)))

CacheKeys == {CacheKey(a) : a \in Args}

serialize(result) == [marshal |-> result]

deserialize(buffer) == buffer.marshal

\* the hook of the cache layer model accepts an entry computed for a wider
\* request and narrows it, and cancels the entry otherwise
postprocess_hook(result, a) ==
    IF a.width > result.width THEN [cancel |-> TRUE, result |-> result]
    ELSE [cancel |-> FALSE, result |-> [value |-> result.value, width |-> a.width]]

(***************************************************************************)
(* The object cache (memcached): get / set / touch with a TTL.             *)
(***************************************************************************)
\* mutant: the entry is still served in the second it expires
Expired_OffByOne(entry, t) == t > entry.exp

Expired(entry, t) == t >= entry.exp

client_get(store, k, t) ==
    IF store[k] = Absent \/ Expired(The(store[k]), t) THEN Absent
    ELSE Some(The(store[k]).payload)

client_set(store, k, payload, ttl, t) ==
    [store EXCEPT ![k] = Some([payload |-> payload, exp |-> t + ttl])]

client_touch(store, k, ttl, t) ==
    IF store[k] = Absent \/ Expired(The(store[k]), t) THEN store
    ELSE [store EXCEPT ![k] = Some([payload |-> The(store[k]).payload, exp |-> t + ttl])]

Outcomes == {"ok", "ClientException"}
UserOutcomes == {"ok", "ValueError"}

NoLocal == [result |-> Absent, payload |-> Absent]
\* ops: cache operations issued; execs: executions of func; live: the payload
\* that was stored and not yet expired when the call looked the key up
\* stale: an expired entry was still in the store at the lookup
NoTrace == [ops |-> {}, execs |-> 0, live |-> Absent, stale |-> FALSE, fault |-> FALSE,
            cancelled |-> FALSE, exc |-> None]

LiveEntry(store, k, t) ==
    IF store[k] # Absent /\ t < The(store[k]).exp THEN Some(The(store[k]).payload)
    ELSE Absent

\* mutant: the cache is used even when no client was discovered
ClientPresent_Always(client) == TRUE

ClientPresent(client) == client # None

Finished(p) == pc[p] \in {"idle", "done", "raised"}

(***************************************************************************)
(* wrapped_cached, first segment: bind the arguments, discover the client, *)
(* compute the key, await client.get(), and on a hit deserialize, run the  *)
(* postprocess hook and either return or go on to touch.                   *)
(***************************************************************************)
HitSegment(p, a, buffer, tr, dout) ==
    IF dout # "ok"
    THEN /\ pc' = [pc EXCEPT ![p] = "raised"]
         /\ local' = [local EXCEPT ![p] = NoLocal]
         /\ trace' = [trace EXCEPT ![p] = [tr EXCEPT !.exc = dout, !.fault = TRUE]]
    ELSE LET result == deserialize(The(buffer))
             hooked == IF postprocess THEN postprocess_hook(result, a)
                       ELSE [cancel |-> FALSE, result |-> result]
         IN IF hooked.cancel
            THEN /\ pc' = [pc EXCEPT ![p] = "func"]
                 /\ local' = [local EXCEPT ![p] = NoLocal]
                 /\ trace' = [trace EXCEPT ![p] = [tr EXCEPT !.cancelled = TRUE]]
            ELSE /\ pc' = [pc EXCEPT ![p] = IF refresh_on_access THEN "touch" ELSE "done"]
                 /\ local' = [local EXCEPT ![p] = [result |-> Some(hooked.result), payload |-> Absent]]
                 /\ trace' = [trace EXCEPT ![p] = tr]

Call(p, a) ==
    /\ Finished(p)
    /\ UNCHANGED <<mineVars, unitVars>>
    /\ args' = [args EXCEPT ![p] = a]
    /\ UNCHANGED <<memcached, now, refresh_on_access, postprocess>>
    /\ IF ClientPresent(discover_cache(a))
       THEN \E gout \in Outcomes, dout \in UserOutcomes :
              LET buffer == IF gout = "ok" THEN client_get(memcached, CacheKey(a), now)
                            ELSE Absent
                  tr == [NoTrace EXCEPT !.ops = {"get"},
                                        !.live = LiveEntry(memcached, CacheKey(a), now),
                                        !.stale = (memcached[CacheKey(a)] # Absent /\
                                                   LiveEntry(memcached, CacheKey(a), now) = Absent),
                                        !.fault = (gout # "ok")]
              IN IF buffer # Absent
                 THEN HitSegment(p, a, buffer, tr, dout)
                 ELSE /\ dout = "ok"
                      /\ pc' = [pc EXCEPT ![p] = "func"]
                      /\ local' = [local EXCEPT ![p] = NoLocal]
                      /\ trace' = [trace EXCEPT ![p] = tr]
       ELSE /\ pc' = [pc EXCEPT ![p] = "func"]
            /\ local' = [local EXCEPT ![p] = NoLocal]
            /\ trace' = [trace EXCEPT ![p] = NoTrace]

(***************************************************************************)
(* await client.touch(cache_key, t) of the hit path, then return result.   *)
(***************************************************************************)
Touch(p) ==
    /\ pc[p] = "touch"
    /\ UNCHANGED <<mineVars, unitVars>>
    /\ UNCHANGED <<now, refresh_on_access, postprocess, args>>
    /\ \E tout \in Outcomes :
         IF tout = "ok"
         THEN /\ memcached' = client_touch(memcached, CacheKey(args[p]), exptime, now)
              /\ pc' = [pc EXCEPT ![p] = "done"]
              /\ trace' = [trace EXCEPT ![p].ops = @ \cup {"touch"}]
              /\ local' = local
         ELSE /\ memcached' = memcached
              /\ pc' = [pc EXCEPT ![p] = "raised"]
              /\ trace' = [trace EXCEPT ![p].ops = @ \cup {"touch"}, ![p].exc = tout,
                                        ![p].fault = TRUE]
              /\ local' = [local EXCEPT ![p] = NoLocal]

(***************************************************************************)
(* result = await func(...), then serialize(result) and the start of      *)
(* client.set(); without a client the result is returned.                  *)
(***************************************************************************)
Func(p) ==
    /\ pc[p] = "func"
    /\ UNCHANGED <<mineVars, unitVars>>
    /\ UNCHANGED <<memcached, now, refresh_on_access, postprocess, args>>
    /\ LET result == func(args[p])
       IN IF ClientPresent(discover_cache(args[p]))
          THEN \E sout \in UserOutcomes :
                 IF sout = "ok"
                 THEN /\ pc' = [pc EXCEPT ![p] = "set"]
                      /\ local' = [local EXCEPT ![p] =
                                     [result |-> Some(result), payload |-> Some(serialize(result))]]
                      /\ trace' = [trace EXCEPT ![p].execs = @ + 1]
                 ELSE /\ pc' = [pc EXCEPT ![p] = "raised"]
                      /\ local' = [local EXCEPT ![p] = NoLocal]
                      /\ trace' = [trace EXCEPT ![p].execs = @ + 1, ![p].exc = sout,
                                                ![p].fault = TRUE]
          ELSE /\ pc' = [pc EXCEPT ![p] = "done"]
               /\ local' = [local EXCEPT ![p] = [result |-> Some(result), payload |-> Absent]]
               /\ trace' = [trace EXCEPT ![p].execs = @ + 1]

(***************************************************************************)
(* await client.set(cache_key, payload, exptime=t); a ClientException is   *)
(* logged and the result is returned either way.                           *)
(***************************************************************************)
Set(p) ==
    /\ pc[p] = "set"
    /\ UNCHANGED <<mineVars, unitVars>>
    /\ UNCHANGED <<now, refresh_on_access, postprocess, args>>
    /\ pc' = [pc EXCEPT ![p] = "done"]
    /\ local' = [local EXCEPT ![p].payload = Absent]
    /\ \E sout \in Outcomes :
         IF sout = "ok"
         THEN /\ memcached' = client_set(memcached, CacheKey(args[p]),
                                         The(local[p].payload), exptime, now)
              /\ trace' = [trace EXCEPT ![p].ops = @ \cup {"set"}]
         ELSE /\ memcached' = memcached
              /\ trace' = [trace EXCEPT ![p].ops = @ \cup {"set"}, ![p].fault = TRUE]

Tick ==
    /\ now < MaxTime
    /\ UNCHANGED <<mineVars, unitVars>>
    /\ now' = now + 1
    /\ UNCHANGED <<memcached, refresh_on_access, postprocess, pc, args, local, trace>>

CacheInit ==
    /\ memcached = [k \in CacheKeys |-> Absent]
    /\ now = 0
    /\ refresh_on_access \in BOOLEAN
    /\ postprocess \in BOOLEAN
    /\ pc = [p \in Procs |-> "idle"]
    /\ args = [p \in Procs |-> [number |-> 1, width |-> 1, cache |-> None]]
    /\ local = [p \in Procs |-> NoLocal]
    /\ trace = [p \in Procs |-> NoTrace]
    /\ session = <<>>
    /\ miner = <<>>
    /\ facts = {}
    /\ last = <<>>
    /\ dropped = {}
    /\ calls = 0
    /\ drops = 0
    /\ UnitIdle

vars == <<cacheVars, mineVars, unitVars>>

CacheNext ==
    \/ \E p \in Procs, a \in Args : Call(p, a)
    \/ \E p \in Procs : Touch(p)
    \/ \E p \in Procs : Func(p)
    \/ \E p \in Procs : Set(p)
    \/ Tick

SpecCache == CacheInit /\ [][CacheNext]_vars

(***************************************************************************)
(* Properties of the cache layer, checked under SpecCache.                 *)
(***************************************************************************)
Returned(p) == pc[p] = "done"

\* C1: with a working cache (no client or serializer failure) and no
\* postprocess hook, a call that finds a stored, unexpired entry for its key
\* returns the stored value without executing func; a call that finds no
\* entry or an expired one executes func (once) again.
C1_HitUntilExpiry ==
    \A p \in Procs :
        (Returned(p) /\ args[p].cache # None /\ ~trace[p].fault /\ ~postprocess) =>
            IF trace[p].live # Absent
            THEN /\ trace[p].execs = 0
                 /\ local[p].result = Some(The(trace[p].live).marshal)
            ELSE /\ trace[p].execs = 1
                 /\ local[p].result = Some(func(args[p]))

C1_Witness ==
    /\ ~postprocess
    /\ \E p, q \in Procs :
          /\ p # q /\ Returned(p) /\ Returned(q)
          /\ ~trace[p].fault /\ trace[p].live # Absent /\ trace[p].execs = 0
          /\ ~trace[q].fault /\ trace[q].stale /\ trace[q].execs = 1

\* C2: a call whose cache handle is None executes func exactly once, returns
\* its result, performs no cache get, set or touch, and never fails.
C2_NoClientPassThrough ==
    \A p \in Procs :
        (pc[p] # "idle" /\ args[p].cache = None) =>
            /\ trace[p].ops = {}
            /\ pc[p] \in {"func", "done"}
            /\ pc[p] = "func" => trace[p].execs = 0
            /\ pc[p] = "done" => /\ trace[p].execs = 1
                                 /\ local[p].result = Some(func(args[p]))

C2_Witness ==
    \E p \in Procs : Returned(p) /\ args[p].cache = None /\ trace[p].execs = 1
                      /\ memcached[CacheKey(args[p])] # Absent

\* C3: no exception of the cache client (get, set, touch) propagates to the
\* caller of a @cached function.
C3_ClientExceptionNeverPropagates ==
    \A p \in Procs : ~(pc[p] = "raised" /\ trace[p].exc = "ClientException")

\* C4: a failure of the user-supplied serializer or deserializer does not
\* abort the call: the caller still receives the result of func.
C4_SerializerFailureAbsorbed ==
    \A p \in Procs : ~(pc[p] = "raised" /\ trace[p].exc = "ValueError")

\* C5: a call whose cache hit was cancelled by the postprocess hook executes
\* func exactly once, returns the fresh result and has stored it under its
\* key when it ends.
C5_CancelledHitRefetchesAndStores ==
    [][\A p \in Procs :
          (trace[p].cancelled /\ ~Finished(p) /\ Finished(p)') =>
              /\ Returned(p)'
              /\ trace'[p].execs = 1
              /\ local'[p].result = Some(func(args[p]))
              /\ memcached'[CacheKey(args[p])] # Absent
              /\ The(memcached'[CacheKey(args[p])]).payload = serialize(func(args[p]))
              /\ ~Expired(The(memcached'[CacheKey(args[p])]), now')]_vars

\* C25: while no stored entry can have expired (the clock is before the first
\* possible expiry) and the cache works (no failure of the client or of the
\* serializers, no hit cancelled), func is not executed by two calls of the
\* same cache key, however the calls interleave.
C25_FuncExecutedOncePerKey ==
    now < exptime =>
        ~ \E p, q \in Procs :
              /\ p # q
              /\ args[p].cache # None /\ args[q].cache # None
              /\ CacheKey(args[p]) = CacheKey(args[q])
              /\ ~trace[p].fault /\ ~trace[q].fault
              /\ ~trace[p].cancelled /\ ~trace[q].cancelled
              /\ trace[p].execs = 1 /\ trace[q].execs = 1


(***************************************************************************)
(*                    PullRequestMiner: snapshot assembly                  *)
(***************************************************************************)

\* pd.NaT / NULL timestamp; every comparison with NaT is false
NaT == -1

\* length of a day in time units: a date d is the timestamp d * DayLen
DayLen == 2

Lt(a, b) == a # NaT /\ b # NaT /\ a < b
Le(a, b) == a # NaT /\ b # NaT /\ a <= b
Gt(a, b) == a # NaT /\ b # NaT /\ a > b
Ge(a, b) == a # NaT /\ b # NaT /\ a >= b

Repos == {"A", "B", "C"}

\* ParticipationKind
Roles == {"AUTHOR", "REVIEWER", "COMMIT_AUTHOR", "COMMIT_COMMITTER", "COMMENTER",
          "MERGER", "RELEASER"}

(***************************************************************************)
(* The metadata DB.  Sub-entity rows carry the node id of their pull       *)
(* request in "pr" (first index level) and their own id in "node_id".      *)
(* created_at of a review is its submitted_at, created_at of a commit is   *)
(* its committed_date.                                                     *)
(***************************************************************************)
PR(id, repo, author, merger, created, merged, closed) ==
    [node_id |-> id, repository_full_name |-> repo, user_login |-> author,
     merged_by_login |-> merger, created_at |-> created, merged_at |-> merged,
     closed_at |-> closed, hidden |-> FALSE]

mdb_prs ==
    { PR(1, "A", "u1", "u2", 2, 3, 3),
      PR(2, "A", "u2", None, 3, NaT, NaT),
      PR(3, "B", "u1", None, 3, NaT, 7),
      PR(4, "C", "u3", "u3", 4, 5, 5),
      PR(5, "A", "u2", None, 2, NaT, 2),
      PR(6, "A", "u1", None, 5, NaT, NaT),
      PR(8, "B", "u2", "u2", 0, 1, 1),
      PR(9, "A", "u1", "u1", 0, 1, 1) }

mdb_releases ==
    { [pr |-> 1, published_at |-> 5, author |-> "u3"],
      [pr |-> 8, published_at |-> 2, author |-> "u3"] }

mdb_commits ==
    { [pr |-> 1, node_id |-> "c1", authored_date |-> 2, committed_date |-> 2,
       author_login |-> "u1", committer_login |-> "u1"],
      [pr |-> 2, node_id |-> "c2", authored_date |-> 7, committed_date |-> 3,
       author_login |-> "u2", committer_login |-> "u3"],
      [pr |-> 3, node_id |-> "c3", authored_date |-> 3, committed_date |-> 5,
       author_login |-> "u1", committer_login |-> "u1"],
      [pr |-> 9, node_id |-> "c4", authored_date |-> 0, committed_date |-> 0,
       author_login |-> "u1", committer_login |-> "u1"] }

mdb_reviews ==
    { [pr |-> 1, node_id |-> "r1", submitted_at |-> 3, user_login |-> "u1",
       state |-> "COMMENTED"],
      [pr |-> 2, node_id |-> "r2", submitted_at |-> 4, user_login |-> "u1",
       state |-> "APPROVED"],
      [pr |-> 4, node_id |-> "r3", submitted_at |-> 5, user_login |-> "u2",
       state |-> "APPROVED"] }

mdb_review_comments ==
    { [pr |-> 1, node_id |-> "rc1", created_at |-> 3, user_login |-> "u3"] }

mdb_review_requests ==
    { [pr |-> 2, node_id |-> "rr1", created_at |-> 3],
      [pr |-> 3, node_id |-> "rr2", created_at |-> 6] }

mdb_comments ==
    { [pr |-> 2, node_id |-> "ic1", created_at |-> 4, user_login |-> "u3"],
      [pr |-> 3, node_id |-> "ic2", created_at |-> 5, user_login |-> "u2"],
      [pr |-> 6, node_id |-> "ic3", created_at |-> 5, user_login |-> "u2"] }

mdb_labels ==
    { [pr |-> 1, node_id |-> "l1", name |-> "bug"],
      [pr |-> 2, node_id |-> "l1", name |-> "bug"],
      [pr |-> 2, node_id |-> "l2", name |-> "perf"],
      [pr |-> 4, node_id |-> "l3", name |-> "wip"],
      [pr |-> 8, node_id |-> "l1", name |-> "bug"] }

\* NodePullRequestJiraIssues joined with Issue; epic is None for an issue
\* without an epic
mdb_issues ==
    { [pr |-> 1, key |-> "i1", type |-> "task", labels |-> {"x"}, epic |-> "e1",
       created |-> 2, updated |-> 7, resolved |-> 3],
      [pr |-> 1, key |-> "i2", type |-> "bug", labels |-> {}, epic |-> "e1",
       created |-> 2, updated |-> 3, resolved |-> NaT],
      [pr |-> 2, key |-> "i3", type |-> "bug", labels |-> {"y"}, epic |-> None,
       created |-> 3, updated |-> 4, resolved |-> NaT],
      [pr |-> 3, key |-> "i4", type |-> "bug", labels |-> {"x"}, epic |-> "e1",
       created |-> 3, updated |-> 5, resolved |-> 7] }

(***************************************************************************)
(* Filter descriptors (controllers/miners/filters.py).  An include entry   *)
(* is a set of labels: one label, or the labels of a comma-joined group.   *)
(***************************************************************************)
LabelFilter(include, exclude) == [include |-> include, exclude |-> exclude]

LabelFilter_empty == LabelFilter({}, {})

LabelFilter_bool(f) == f.include # {} \/ f.exclude # {}

LabelFilter_compatible_with(self, other) ==
    /\ (self.include = {} \/ (other.include # {} /\ other.include \subseteq self.include))
    /\ (self.exclude = {} \/ (other.exclude # {} /\ self.exclude \subseteq other.exclude))

LabelFilter_split(include) ==
    [singles |-> UNION {g : g \in {h \in include : Cardinality(h) = 1}},
     multiples |-> {g \in include : Cardinality(g) > 1}]

JIRAFilter(labels, epics, issue_types) ==
    [labels |-> labels, epics |-> epics, issue_types |-> issue_types]

JIRAFilter_empty == JIRAFilter(LabelFilter_empty, {}, {})

JIRAFilter_bool(f) == LabelFilter_bool(f.labels) \/ f.epics # {} \/ f.issue_types # {}

JIRAFilter_compatible_with(self, other) ==
    IF ~LabelFilter_compatible_with(self.labels, other.labels) THEN FALSE
    ELSE IF self.epics # {} /\ (other.epics = {} \/ ~(other.epics \subseteq self.epics))
    THEN FALSE
    ELSE IF self.issue_types # {} /\
            (other.issue_types = {} \/ ~(other.issue_types \subseteq self.issue_types))
    THEN FALSE
    ELSE TRUE

\* Participants: role -> set of logins, an absent role maps to {}
NoParticipants == [k \in Roles |-> {}]

Participants_bool(participants) == \E k \in Roles : participants[k] # {}

Participants_len(participants) == Cardinality({k \in Roles : participants[k] # {}})

_check_participants_compatibility(cached_participants, participants) ==
    IF ~Participants_bool(cached_participants) THEN TRUE
    ELSE IF ~Participants_bool(participants) THEN FALSE
    ELSE \A k \in Roles : participants[k] \subseteq cached_participants[k]

(***************************************************************************)
(* PRDataFrames: the tables of a snapshot, each a set of rows.             *)
(***************************************************************************)
Tables == {"prs", "releases", "commits", "jiras", "reviews", "review_comments",
           "review_requests", "comments", "labels"}

\* first index level of a row of table t
RowId(t, r) == IF t = "prs" THEN r.node_id ELSE r.pr

Index(dfs, t) == {RowId(t, r) : r \in dfs[t]}

EmptyDataFrames == [t \in Tables |-> {}]

TimestampColumns == {"created_at", "merged_at", "closed_at", "published_at",
                     "authored_date", "committed_date", "submitted_at",
                     "created", "updated", "resolved"}

\* the timestamp cells of a row that are set
Timestamps(r) == {r[c] : c \in {d \in DOMAIN r \cap TimestampColumns : r[d] # NaT}}

\* mutant: the comparison is flipped, the past is erased instead of the future
_truncate_timestamps_flipped(df, upto) ==
    {[c \in DOMAIN r |-> IF c \in TimestampColumns /\ Lt(r[c], upto) THEN NaT ELSE r[c]]
        : r \in df}

_truncate_timestamps(df, upto) ==
    {[c \in DOMAIN r |-> IF c \in TimestampColumns /\ Gt(r[c], upto) THEN NaT ELSE r[c]]
        : r \in df}

\* mutant: the rows of the sub-tables stay
_drop_prs_only(dfs, pr_ids) ==
    [t \in Tables |-> IF t = "prs" THEN {r \in dfs[t] : RowId(t, r) \notin pr_ids}
                      ELSE dfs[t]]

_drop(dfs, pr_ids) ==
    IF pr_ids = {} THEN dfs
    ELSE [t \in Tables |-> {r \in dfs[t] : RowId(t, r) \notin pr_ids}]

\* PullRequestMiner.drop: the new tables and the removed node ids
drop(dfs, node_ids) ==
    LET removed == Index(dfs, "prs") \cap node_ids
    IN [removed |-> removed,
        dfs |-> IF removed = {} THEN dfs
                ELSE [t \in Tables |-> {r \in dfs[t] : RowId(t, r) \notin removed}]]

\* mutant: the pull requests created at or after time_to stay
_truncate_prs_keeps_uncreated(dfs, time_from, time_to) ==
    LET unreleased == {r.pr : r \in {x \in dfs.releases : Lt(x.published_at, time_from)}}
        unrejected == {r.node_id : r \in {x \in dfs.prs :
                          Lt(x.closed_at, time_from) /\ x.merged_at = NaT}}
    IN _drop(dfs, unreleased \cup unrejected)

_truncate_prs(dfs, time_from, time_to) ==
    LET unreleased == {r.pr : r \in {x \in dfs.releases : Lt(x.published_at, time_from)}}
        unrejected == {r.node_id : r \in {x \in dfs.prs :
                          Lt(x.closed_at, time_from) /\ x.merged_at = NaT}}
        uncreated == {r.node_id : r \in {x \in dfs.prs : Ge(x.created_at, time_to)}}
    IN _drop(dfs, unreleased \cup unrejected \cup uncreated)

(***************************************************************************)
(* The filter engine.                                                      *)
(***************************************************************************)
\* the sub-tables as _find_drop_by_participants leaves them in dfs
_find_drop_by_participants_dfs(dfs, participants, time_to) ==
    IF ~Participants_bool(participants) \/ time_to = NaT THEN dfs
    ELSE [dfs EXCEPT
            !.commits = {r \in @ : Lt(r.committed_date, time_to)},
            !.reviews = {r \in @ : Lt(r.submitted_at, time_to)},
            !.review_comments = {r \in @ : Lt(r.created_at, time_to)},
            !.review_requests = {r \in @ : Lt(r.created_at, time_to)},
            !.comments = {r \in @ : Lt(r.created_at, time_to)}]

\* mutant: a review by the author of the pull request counts as well
_find_drop_by_participants_self_review(dfs0, participants, time_to) ==
    IF ~Participants_bool(participants) THEN {}
    ELSE
      LET dfs == _find_drop_by_participants_dfs(dfs0, participants, time_to)
          author == {r.node_id : r \in {x \in dfs.prs :
                        x.user_login \in participants["AUTHOR"]}}
          merger == {r.node_id : r \in {x \in dfs.prs :
                        /\ x.merged_by_login \in participants["MERGER"]
                        /\ (time_to # NaT => Lt(x.merged_at, time_to))}}
          releaser == {r.pr : r \in {x \in dfs.releases :
                        /\ x.author \in participants["RELEASER"]
                        /\ (time_to # NaT => Lt(x.published_at, time_to))}}
          \* merge(how="left") of the reviews with the authors of their PRs
          reviewer == {r.pr : r \in {x \in dfs.reviews :
                        x.user_login \in participants["REVIEWER"]}}
          commenter == {r.pr : r \in {x \in dfs.comments :
                        x.user_login \in participants["COMMENTER"]}}
          commit_author == {r.pr : r \in {x \in dfs.commits :
                        x.author_login \in participants["COMMIT_AUTHOR"]}}
          committer == {r.pr : r \in {x \in dfs.commits :
                        x.committer_login \in participants["COMMIT_COMMITTER"]}}
          passed == author \cup merger \cup releaser \cup reviewer \cup commenter
                    \cup commit_author \cup committer
      IN Index(dfs, "prs") \ passed

_find_drop_by_participants(dfs0, participants, time_to) ==
    IF ~Participants_bool(participants) THEN {}
    ELSE
      LET dfs == _find_drop_by_participants_dfs(dfs0, participants, time_to)
          author == {r.node_id : r \in {x \in dfs.prs :
                        x.user_login \in participants["AUTHOR"]}}
          merger == {r.node_id : r \in {x \in dfs.prs :
                        /\ x.merged_by_login \in participants["MERGER"]
                        /\ (time_to # NaT => Lt(x.merged_at, time_to))}}
          releaser == {r.pr : r \in {x \in dfs.releases :
                        /\ x.author \in participants["RELEASER"]
                        /\ (time_to # NaT => Lt(x.published_at, time_to))}}
          \* merge(how="left") of the reviews with the authors of their PRs
          reviewer == {r.pr : r \in {x \in dfs.reviews :
                        /\ x.user_login \in participants["REVIEWER"]
                        /\ \A pr \in dfs.prs :
                              pr.node_id = x.pr => x.user_login # pr.user_login}}
          commenter == {r.pr : r \in {x \in dfs.comments :
                        x.user_login \in participants["COMMENTER"]}}
          commit_author == {r.pr : r \in {x \in dfs.commits :
                        x.author_login \in participants["COMMIT_AUTHOR"]}}
          committer == {r.pr : r \in {x \in dfs.commits :
                        x.committer_login \in participants["COMMIT_COMMITTER"]}}
          passed == author \cup merger \cup releaser \cup reviewer \cup commenter
                    \cup commit_author \cup committer
      IN Index(dfs, "prs") \ passed

\* rows: pairs <<id, label name>>; the index holds the ids that have a label
_find_left_by_labels(rows, labels) ==
    LET df_labels_index == {r[1] : r \in rows}
        Having(label) == {r[1] : r \in {x \in rows : x[2] = label}}
        split == LabelFilter_split(labels.include)
        left_include ==
            {r[1] : r \in {x \in rows : x[2] \in split.singles}} \cup
            UNION {{id \in df_labels_index : \A label \in group : id \in Having(label)}
                      : group \in split.multiples}
        left_exclude ==
            df_labels_index \ {r[1] : r \in {x \in rows : x[2] \in labels.exclude}}
    IN IF labels.include # {}
       THEN IF labels.exclude # {} THEN left_include \cap left_exclude ELSE left_include
       ELSE left_exclude

\* str.lower() on the label names that occur
str_lower(name) ==
    CASE name = "Bug" -> "bug" [] name = "WIP" -> "wip" [] OTHER -> name

_find_drop_by_labels(dfs, labels) ==
    IF ~LabelFilter_bool(labels) THEN {}
    ELSE Index(dfs, "prs")
         \ _find_left_by_labels({<<r.pr, str_lower(r.name)>> : r \in dfs.labels}, labels)

_find_drop_by_jira(dfs, jira) ==
    IF ~JIRAFilter_bool(jira) THEN {}
    ELSE
      LET jira_index == Index(dfs, "jiras")
          by_labels == _find_left_by_labels(
              UNION {{<<r.pr, l>> : l \in r.labels} : r \in dfs.jiras}, jira.labels)
          by_epics == {r.pr : r \in {x \in dfs.jiras : x.epic \in jira.epics}}
          by_types == {r.pr : r \in {x \in dfs.jiras : x.type \in jira.issue_types}}
          result == (IF LabelFilter_bool(jira.labels) THEN by_labels ELSE jira_index) \cap
                    (IF jira.epics # {} THEN by_epics ELSE jira_index) \cap
                    (IF jira.issue_types # {} THEN by_types ELSE jira_index)
      IN Index(dfs, "prs") \ result

_find_drop_by_inactive(dfs, time_from, time_to) ==
    LET Between(t) == Ge(t, time_from) /\ Le(t, time_to)
        active_prs ==
            {r.node_id : r \in {x \in dfs.prs : Between(x.created_at) \/ Between(x.closed_at)}}
            \cup {r.pr : r \in {x \in dfs.commits : Between(x.committed_date)}}
            \cup {r.pr : r \in {x \in dfs.review_requests : Between(x.created_at)}}
            \cup {r.pr : r \in {x \in dfs.reviews : Between(x.submitted_at)}}
            \cup {r.pr : r \in {x \in dfs.comments : Between(x.created_at)}}
            \cup {r.pr : r \in {x \in dfs.releases : Between(x.published_at)}}
    IN Index(dfs, "prs") \ active_prs

(***************************************************************************)
(* The queries of the assembly.  A request is the record of the arguments  *)
(* of PullRequestMiner.mine; dates are day numbers.                        *)
(***************************************************************************)
PRIds(prs) == {r.node_id : r \in prs}

\* the WHERE clause of _generate_jira_prs_query on one joined issue row
\* (postgres dialect, no JIRA components)
_generate_jira_prs_query(issue, jira) ==
    LET split == LabelFilter_split(jira.labels.include)
    IN /\ jira.labels.include # {} =>
            \/ issue.labels \cap split.singles # {}
            \/ \E m \in split.multiples : m \subseteq issue.labels
       /\ jira.labels.exclude # {} => issue.labels \cap jira.labels.exclude = {}
       /\ jira.issue_types # {} => issue.type \in jira.issue_types
       /\ jira.epics # {} => issue.epic \in jira.epics

_filter_jira(prs, jira) ==
    {pr \in prs : \E issue \in mdb_issues :
        issue.pr = pr.node_id /\ _generate_jira_prs_query(issue, jira)}

_fetch_prs(time_from, time_to, repositories, participants, jira, pr_blacklist) ==
    LET by_participants(pr) ==
            IF Participants_len(participants) = 1
            THEN IF participants["AUTHOR"] # {}
                 THEN pr.user_login \in participants["AUTHOR"]
                 ELSE IF participants["MERGER"] # {}
                 THEN pr.merged_by_login \in participants["MERGER"]
                 ELSE TRUE
            ELSE IF /\ Participants_len(participants) = 2
                    /\ participants["AUTHOR"] # {} /\ participants["MERGER"] # {}
            THEN \/ pr.user_login \in participants["AUTHOR"]
                 \/ pr.merged_by_login \in participants["MERGER"]
            ELSE TRUE
        selected == {pr \in mdb_prs :
                        /\ (pr.closed_at = NaT \/ Ge(pr.closed_at, time_from))
                        /\ Lt(pr.created_at, time_to)
                        /\ ~pr.hidden
                        /\ pr.repository_full_name \in repositories
                        /\ pr.node_id \notin pr_blacklist
                        /\ by_participants(pr)}
    IN IF ~JIRAFilter_bool(jira) THEN selected ELSE _filter_jira(selected, jira)

\* release-to-PR mapping: the pull requests of the repositories released
\* inside the window
map_releases_to_prs(repositories, time_from, time_to, pr_blacklist) ==
    {pr \in mdb_prs :
        /\ pr.repository_full_name \in repositories
        /\ pr.node_id \notin pr_blacklist
        /\ ~pr.hidden
        /\ \E rel \in mdb_releases :
              rel.pr = pr.node_id /\ Ge(rel.published_at, time_from)
                                  /\ Lt(rel.published_at, time_to)}

\* merged before the window and not released yet
load_inactive_merged_unreleased_prs(time_from, time_to, repositories) ==
    {pr \in mdb_prs :
        /\ pr.repository_full_name \in repositories
        /\ ~pr.hidden
        /\ Lt(pr.merged_at, time_from)
        /\ ~\E rel \in mdb_releases : rel.pr = pr.node_id}

_read_filtered_models(model, node_ids, time_to, created_at_column, created_at) ==
    {r \in model : r.pr \in node_ids /\ (created_at => Lt(r[created_at_column], time_to))}

\* the inner joins of fetch_jira keep the issues that have an epic
fetch_jira(node_ids) ==
    {issue \in mdb_issues : issue.pr \in node_ids /\ issue.epic # None}

\* releases of the merged pull requests
map_prs_to_releases(merged_prs) ==
    {rel \in mdb_releases : rel.pr \in PRIds(merged_prs)}

_mine_by_ids(prs, unreleased, time_to, truncate) ==
    LET node_ids == PRIds(prs)
        merged_prs == {pr \in prs :
                          /\ IF truncate THEN Le(pr.merged_at, time_to)
                             ELSE pr.merged_at # NaT
                          /\ pr.node_id \notin unreleased}
    IN [prs |-> prs,
        releases |-> map_prs_to_releases(merged_prs),
        commits |-> _read_filtered_models(mdb_commits, node_ids, time_to,
                                          "committed_date", truncate),
        jiras |-> fetch_jira(node_ids),
        reviews |-> _read_filtered_models(mdb_reviews, node_ids, time_to,
                                          "submitted_at", truncate),
        review_comments |-> _read_filtered_models(mdb_review_comments, node_ids, time_to,
                                                  "created_at", truncate),
        review_requests |-> _read_filtered_models(mdb_review_requests, node_ids, time_to,
                                                  "created_at", truncate),
        comments |-> _read_filtered_models(mdb_comments, node_ids, time_to,
                                           "created_at", truncate),
        labels |-> _read_filtered_models(mdb_labels, node_ids, time_to, "name", FALSE)]

\* the keys of the precomputed facts: open pull requests and merged ones
\* that are not released
load_open_pull_request_facts(prs) == {pr.node_id : pr \in {x \in prs : x.closed_at = NaT}}

discover_unreleased_prs(prs, releases) ==
    {pr.node_id : pr \in {x \in prs : x.merged_at # NaT /\ x.node_id \notin
                                        {rel.pr : rel \in releases}}}

(***************************************************************************)
(* PullRequestMiner._mine, its cache postprocessing and mine.              *)
(***************************************************************************)
Timestamp(date) == date * DayLen

\* the tables and the facts after both waves of fetches, before the filters
_mine_fetch(req) ==
    LET time_from == Timestamp(req.date_from)
        time_to == Timestamp(req.date_to)
        released_prs == map_releases_to_prs(req.repositories, time_from, time_to,
                                            req.pr_blacklist)
        fetched == _fetch_prs(time_from, time_to, req.repositories, req.participants,
                              req.jira, req.pr_blacklist)
        unreleased == IF ~req.exclude_inactive
                      THEN load_inactive_merged_unreleased_prs(time_from, time_to,
                                                               req.repositories)
                      ELSE {}
        concat == IF JIRAFilter_bool(req.jira)
                  THEN fetched \cup _filter_jira(released_prs \cup unreleased, req.jira)
                  ELSE fetched \cup released_prs \cup unreleased
        prs == IF req.truncate THEN _truncate_timestamps(concat, time_to) ELSE concat
        dfs == _mine_by_ids(prs, PRIds(unreleased), time_to, req.truncate)
    IN [dfs |-> dfs,
        facts |-> load_open_pull_request_facts(prs) \cup
                  discover_unreleased_prs(prs, dfs.releases)]

\* the node ids that the filters of _mine drop from the fetched tables
_mine_to_drop(req, dfs) ==
    LET time_from == Timestamp(req.date_from)
        time_to == Timestamp(req.date_to)
        cut == IF req.truncate THEN NaT ELSE time_to
        dfs1 == _find_drop_by_participants_dfs(dfs, req.participants, cut)
    IN _find_drop_by_participants(dfs, req.participants, cut)
       \cup _find_drop_by_labels(dfs1, req.labels)
       \cup (IF req.exclude_inactive THEN _find_drop_by_inactive(dfs1, time_from, time_to)
             ELSE {})

_mine(req) ==
    LET fetched == _mine_fetch(req)
        cut == IF req.truncate THEN NaT ELSE Timestamp(req.date_to)
        dfs1 == _find_drop_by_participants_dfs(fetched.dfs, req.participants, cut)
    IN [dfs |-> _drop(dfs1, _mine_to_drop(req, fetched.dfs)),
        facts |-> fetched.facts,
        repositories |-> req.repositories,
        participants |-> req.participants,
        labels |-> req.labels,
        jira |-> req.jira]

\* the four conditions of _postprocess_cached_prs under which CancelCache is raised
\* mutant: the repositories are compared the wrong way round
_postprocess_cancels_swapped(result, req) ==
    \/ result.repositories \ req.repositories # {}
    \/ ~_check_participants_compatibility(result.participants, req.participants)
    \/ ~LabelFilter_compatible_with(result.labels, req.labels)
    \/ ~JIRAFilter_compatible_with(result.jira, req.jira)

_postprocess_cancels(result, req) ==
    \/ req.repositories \ result.repositories # {}
    \/ ~_check_participants_compatibility(result.participants, req.participants)
    \/ ~LabelFilter_compatible_with(result.labels, req.labels)
    \/ ~JIRAFilter_compatible_with(result.jira, req.jira)

_postprocess_to_remove(result, req) ==
    LET dfs == result.dfs
        time_to == IF req.truncate THEN NaT ELSE Timestamp(req.date_to)
        dfs1 == _find_drop_by_participants_dfs(dfs, req.participants, time_to)
    IN req.pr_blacklist
       \cup {pr.node_id : pr \in {x \in dfs.prs :
                                    x.repository_full_name \notin req.repositories}}
       \cup _find_drop_by_participants(dfs, req.participants, time_to)
       \cup _find_drop_by_labels(dfs1, req.labels)
       \cup _find_drop_by_jira(dfs1, req.jira)

_postprocess_cached_prs(result, req) ==
    IF _postprocess_cancels(result, req)
    THEN [cancel |-> TRUE, result |-> result]
    ELSE LET time_to == IF req.truncate THEN NaT ELSE Timestamp(req.date_to)
             dfs1 == _find_drop_by_participants_dfs(result.dfs, req.participants, time_to)
         IN [cancel |-> FALSE,
             result |-> [result EXCEPT
                           !.dfs = _drop(dfs1, _postprocess_to_remove(result, req))]]

\* the decorator arguments of _mine
CACHE_TTL == 300

pickle_dumps(result) == [pickle |-> result]

pickle_loads(buffer) == buffer.pickle

\* ",".join(sorted(node_ids))
RECURSIVE sorted_join(_)
sorted_join(node_ids) ==
    IF node_ids = {} THEN <<>>
    ELSE LET first == CHOOSE n \in node_ids : \A m \in node_ids : n <= m
         IN IF node_ids = {first} THEN int_str(first)
            ELSE int_str(first) \o <<",">> \o sorted_join(node_ids \ {first})

\* the release settings and the limit are the same in every request of the model
_mine_key(req) ==
    <<[int |-> req.date_from], [int |-> req.date_to], [bool |-> req.exclude_inactive],
      [str |-> <<"{", "}">>], [int |-> 0], [str |-> sorted_join(req.pr_blacklist)],
      [bool |-> req.truncate]>>

_mine_cache_key(req) ==
    The(wrapped_cached_cache_key(<<"_", "m", "i", "n", "e">>, _mine_key(req)))

\* the part of mine after the cached _mine returned
mine_truncate(dfs, req) ==
    LET dfs1 == _truncate_prs(dfs, req.time_from, req.time_to)
    IN IF req.truncate
       THEN [t \in Tables |-> _truncate_timestamps(dfs1[t], req.time_to)]
       ELSE dfs1

\* mine without a cache
mine_fresh(req) ==
    LET result == _mine(req)
    IN [dfs |-> mine_truncate(result.dfs, req), facts |-> result.facts]

(***************************************************************************)
(* The calls of PullRequestMiner.mine through the cache, and of drop.      *)
(***************************************************************************)
MaxCalls == 2
MaxDrops == 1
MaxExpiries == 1

Participants(author, reviewer) ==
    [k \in Roles |-> IF k = "AUTHOR" THEN author ELSE IF k = "REVIEWER" THEN reviewer ELSE {}]

\* the participants, labels and JIRA filters of the requests
FilterChoices ==
    { [participants |-> NoParticipants, labels |-> LabelFilter_empty,
       jira |-> JIRAFilter_empty],
      [participants |-> Participants({"u1"}, {}), labels |-> LabelFilter_empty,
       jira |-> JIRAFilter_empty],
      [participants |-> Participants({"u1"}, {"u1"}), labels |-> LabelFilter_empty,
       jira |-> JIRAFilter_empty],
      [participants |-> Participants({}, {"u1"}), labels |-> LabelFilter_empty,
       jira |-> JIRAFilter_empty],
      [participants |-> NoParticipants, labels |-> LabelFilter({{"bug"}}, {}),
       jira |-> JIRAFilter_empty],
      [participants |-> NoParticipants, labels |-> LabelFilter({}, {"wip"}),
       jira |-> JIRAFilter_empty],
      [participants |-> NoParticipants, labels |-> LabelFilter_empty,
       jira |-> JIRAFilter(LabelFilter_empty, {}, {"bug"})],
      [participants |-> NoParticipants, labels |-> LabelFilter_empty,
       jira |-> JIRAFilter(LabelFilter({{"x"}}, {}), {}, {"bug"})],
      [participants |-> NoParticipants, labels |-> LabelFilter_empty,
       jira |-> JIRAFilter(LabelFilter({}, {"x"}), {}, {})] }

RepositoryChoices == {{"A"}, {"A", "B"}, {"A", "C"}}

\* the arguments that stay the same in a session: half of the combinations
\* of the five choices, every pair of values occurs
Sessions ==
    {s \in [date_from : {1}, date_to : {3}, late : {0, 1}, early : {0, 1},
            truncate : BOOLEAN, exclude_inactive : BOOLEAN, pr_blacklist : {{}, {2, 9}}] :
        /\ (s.pr_blacklist = {}) = (s.truncate = s.exclude_inactive)
        /\ (s.early = 0) = (s.truncate = (s.late = 0))}

Request(s, repositories, f, truncate) ==
    [date_from |-> s.date_from, date_to |-> s.date_to,
     time_from |-> Timestamp(s.date_from) + s.late,
     time_to |-> Timestamp(s.date_to) - s.early, repositories |-> repositories,
     participants |-> f.participants, labels |-> f.labels, jira |-> f.jira,
     exclude_inactive |-> s.exclude_inactive, pr_blacklist |-> s.pr_blacklist,
     truncate |-> truncate]

\* the requests of a session, and one request with another cache key
Requests(s) ==
    {Request(s, repositories, f, s.truncate)
        : repositories \in RepositoryChoices, f \in FilterChoices}
    \cup {Request(s, {"A", "B"}, CHOOSE f \in FilterChoices :
                        ~Participants_bool(f.participants) /\ ~LabelFilter_bool(f.labels)
                        /\ ~JIRAFilter_bool(f.jira), ~s.truncate)}

AllRequests == UNION {Requests(s) : s \in Sessions}

DropChoices == {{1, 3}, {2, 7}}

Mine(req) ==
    /\ calls < MaxCalls
    /\ drops = 0
    /\ UNCHANGED <<now, callVars, session, drops, unitVars>>
    /\ LET cache_key == _mine_cache_key(req)
           buffer == client_get(memcached, cache_key, now)
           hit == buffer # Absent
           cached == pickle_loads(The(buffer))
           post == _postprocess_cached_prs(cached, req)
           served == hit /\ ~post.cancel
           result == IF served THEN post.result ELSE _mine(req)
           before == IF served THEN cached.dfs ELSE _mine_fetch(req).dfs
           returned == mine_truncate(result.dfs, req)
       IN /\ memcached' = IF served THEN memcached
                          ELSE client_set(memcached, cache_key, pickle_dumps(result),
                                          CACHE_TTL, now)
          /\ miner' = returned
          /\ facts' = result.facts
          /\ dropped' = Index(before, "prs") \ Index(returned, "prs")
          /\ last' = [req |-> req,
                      entry |-> IF hit THEN Some([repositories |-> cached.repositories,
                                                  participants |-> cached.participants,
                                                  labels |-> cached.labels,
                                                  jira |-> cached.jira])
                                ELSE Absent,
                      served |-> IF served THEN "cache" ELSE "fetch"]
    /\ calls' = calls + 1

\* PullRequestMiner.drop on the miner that mine returned
Drop(node_ids) ==
    /\ calls > 0
    /\ drops < MaxDrops
    /\ UNCHANGED <<memcached, now, callVars, session, facts, last, calls, unitVars>>
    /\ miner' = drop(miner, node_ids).dfs
    /\ dropped' = dropped \cup drop(miner, node_ids).removed
    /\ drops' = drops + 1

\* the entries of the cache expire
Expire ==
    /\ now < CACHE_TTL * MaxExpiries
    /\ calls > 0
    /\ calls < MaxCalls
    /\ drops = 0
    /\ now' = now + CACHE_TTL
    /\ UNCHANGED <<memcached, callVars, mineVars, unitVars>>

MineInit ==
    /\ session \in Sessions
    /\ memcached = [k \in {_mine_cache_key(req) : req \in AllRequests} |-> Absent]
    /\ now = 0
    /\ refresh_on_access = FALSE
    /\ postprocess = TRUE
    /\ pc = [p \in Procs |-> "idle"]
    /\ args = [p \in Procs |-> [number |-> 1, width |-> 1, cache |-> None]]
    /\ local = [p \in Procs |-> NoLocal]
    /\ trace = [p \in Procs |-> NoTrace]
    /\ miner = EmptyDataFrames
    /\ facts = {}
    /\ last = [req |-> CHOOSE req \in Requests(session) : TRUE, entry |-> Absent,
               served |-> "none"]
    /\ dropped = {}
    /\ calls = 0
    /\ drops = 0
    /\ UnitIdle

MineNext ==
    \/ \E req \in Requests(session) : Mine(req)
    \/ \E node_ids \in DropChoices : Drop(node_ids)
    \/ Expire

SpecMine == MineInit /\ [][MineNext]_vars

(***************************************************************************)
(* Properties of the snapshot assembly, checked under SpecMine.            *)
(***************************************************************************)
Mined == calls > 0

ServedFromCache == Mined /\ last.served = "cache"

\* C6: a cache hit of _mine is served by pruning, without a fetch, exactly
\* when the requested repositories are a subset of the cached ones and the
\* cached participants, labels and JIRA filter are compatible with the
\* requested ones; every other hit is cancelled and fetched afresh.  The
\* pruned snapshot holds pull requests of the requested repositories only.
C6_PrunedIffCompatible ==
    (Mined /\ last.entry # Absent) =>
        LET cached == The(last.entry)
            req == last.req
            compatible ==
                /\ req.repositories \subseteq cached.repositories
                /\ _check_participants_compatibility(cached.participants, req.participants)
                /\ LabelFilter_compatible_with(cached.labels, req.labels)
                /\ JIRAFilter_compatible_with(cached.jira, req.jira)
        IN /\ (last.served = "cache") = compatible
           /\ (last.served = "fetch") = ~compatible
           /\ (cached.repositories = {"A", "B"} /\ req.repositories = {"A", "C"})
                  => last.served = "fetch"
           /\ (last.served = "cache" /\ drops = 0) =>
                  \A pr \in miner.prs : pr.repository_full_name \in req.repositories

C6_Witness ==
    /\ ServedFromCache
    /\ The(last.entry).repositories = {"A", "B"}
    /\ last.req.repositories = {"A"}
    /\ Index(miner, "prs") # {}

\* C7: a snapshot served from the cache by pruning holds exactly the pull
\* requests that a fresh assembly with the same arguments returns.
C7_PrunedEqualsFresh ==
    (ServedFromCache /\ drops = 0) =>
        Index(miner, "prs") = Index(mine_fresh(last.req).dfs, "prs")

\* C8: a second call with the arguments of the call that filled the cache
\* returns the facts and the tables that the first call returned.
C8_WarmCallRepeatsFirst ==
    (/\ ServedFromCache /\ drops = 0
     /\ The(last.entry) = [repositories |-> last.req.repositories,
                           participants |-> last.req.participants,
                           labels |-> last.req.labels,
                           jira |-> last.req.jira]) =>
        /\ miner = mine_fresh(last.req).dfs
        /\ facts = mine_fresh(last.req).facts

C10_DropCascades ==
    Mined =>
        \A t \in Tables :
            /\ Index(miner, t) \subseteq Index(miner, "prs")
            /\ Index(miner, t) \cap dropped = {}

C10_Witness ==
    /\ ServedFromCache
    /\ drops > 0
    /\ \E id \in dropped : \E r \in mdb_commits : r.pr = id
    /\ \E t \in Tables \ {"prs"} : miner[t] # {}

\* C13: the snapshot that mine returns has no pull request released before
\* the precise time_from, none closed without a merge before time_from and
\* none created at or after the precise time_to.
C13_PreciseWindow ==
    Mined =>
        \A pr \in miner.prs : \A row \in mdb_prs :
            row.node_id = pr.node_id =>
                /\ ~\E rel \in mdb_releases :
                       rel.pr = row.node_id /\ Lt(rel.published_at, last.req.time_from)
                /\ ~(Lt(row.closed_at, last.req.time_from) /\ row.merged_at = NaT)
                /\ ~Ge(row.created_at, last.req.time_to)

C13_Witness ==
    /\ Mined
    /\ last.req.time_from > Timestamp(last.req.date_from)
    /\ last.req.time_to < Timestamp(last.req.date_to)
    /\ {5, 6, 8} \subseteq dropped
    /\ miner.prs # {}

\* C14: no pull request of a non-empty blacklist is in the snapshot, from
\* whichever first-wave source it would come, fresh or served from the cache.
C14_BlacklistExcluded ==
    (Mined /\ last.req.pr_blacklist # {}) =>
        Index(miner, "prs") \cap last.req.pr_blacklist = {}

\* C15: every key of the returned facts is the id of a pull request of the
\* returned snapshot, fresh or served from the cache by pruning.
C15_FactsWithinSnapshot ==
    (Mined /\ drops = 0) => facts \subseteq Index(miner, "prs")

(***************************************************************************)
(* One run of PullRequestMiner._mine on a cache miss, wave by wave.  Each  *)
(* asyncio.gather(..., return_exceptions=True) waits for all its tasks, so *)
(* a wave is one step whose input is the outcome of every task.            *)
(***************************************************************************)
TaskOutcomes == {"ok", "failed"}

\* the first wave; dummy_unreleased replaces the third task and cannot fail
first_wave_tasks(req) ==
    {"map_releases_to_prs", "_fetch_prs"}
    \cup (IF ~req.exclude_inactive THEN {"load_inactive_merged_unreleased_prs"} ELSE {})

\* for r in (prs, released, unreleased)
first_wave_checked ==
    <<"_fetch_prs", "map_releases_to_prs", "load_inactive_merged_unreleased_prs">>

map_releases_subtasks == <<"map_prs_to_releases", "discover_unreleased_prs">>

mine_by_ids_tasks ==
    <<"map_releases", "fetch_commits", "fetch_jira", "fetch_reviews",
      "fetch_review_comments", "fetch_review_requests", "fetch_comments", "fetch_labels">>

second_wave_tasks == <<"_mine_by_ids", "load_open_pull_request_facts">>

\* the coroutines of the second wave that query a database
second_wave_leaves ==
    {"map_prs_to_releases", "discover_unreleased_prs", "fetch_commits", "fetch_jira",
     "fetch_reviews", "fetch_review_comments", "fetch_review_requests", "fetch_comments",
     "fetch_labels", "load_open_pull_request_facts"}

AllTasks == {"map_releases_to_prs", "_fetch_prs", "load_inactive_merged_unreleased_prs",
             "_filter_jira"} \cup second_wave_leaves

\* mutant: the loop over the gathered results misses the last one
gather_raise_but_last(results, order) ==
    LET bad == {k \in 1..(Len(order) - 1) : results[order[k]] = "failed"}
    IN IF bad = {} THEN None ELSE order[CHOOSE k \in bad : \A l \in bad : k <= l]

\* for r in results: if isinstance(r, Exception): raise r from None
gather_raise(results, order) ==
    LET bad == {k \in 1..Len(order) : results[order[k]] = "failed"}
    IN IF bad = {} THEN None ELSE order[CHOOSE k \in bad : \A l \in bad : k <= l]

\* the exception that leaves _mine_by_ids, None if there is none
_mine_by_ids_raise(outcomes) ==
    LET sub == gather_raise(outcomes, map_releases_subtasks)
        results == [t \in {mine_by_ids_tasks[k] : k \in 1..Len(mine_by_ids_tasks)} |->
                       IF t = "map_releases"
                       THEN IF sub = None THEN "ok" ELSE "failed"
                       ELSE outcomes[t]]
        first == gather_raise(results, mine_by_ids_tasks)
    IN IF first = "map_releases" THEN sub ELSE first

\* the exception that leaves the second wave of _mine, None if there is none
_mine_second_wave_raise(outcomes) ==
    LET mined == _mine_by_ids_raise(outcomes)
        results == [t \in {"_mine_by_ids", "load_open_pull_request_facts"} |->
                       IF t = "_mine_by_ids"
                       THEN IF mined = None THEN "ok" ELSE "failed"
                       ELSE outcomes[t]]
        first == gather_raise(results, second_wave_tasks)
    IN IF first = "_mine_by_ids" THEN mined ELSE first

\* the rows of a result set in index order, each with the query it came from
SortedIds(rows) ==
    LET ids == PRIds(rows)
    IN CHOOSE q \in [1..Cardinality(ids) -> ids] :
          \A k, l \in 1..Cardinality(ids) : k < l => q[k] < q[l]

Tagged(rows, source) ==
    [k \in 1..Cardinality(PRIds(rows)) |-> [node_id |-> SortedIds(rows)[k], source |-> source]]

\* prs[~prs.index.duplicated()]
drop_duplicated(rows) ==
    LET keep(k) == \A l \in 1..(k - 1) : rows[l].node_id # rows[k].node_id
        F[k \in 0..Len(rows)] ==
            IF k = 0 THEN <<>>
            ELSE IF keep(k) THEN Append(F[k - 1], rows[k]) ELSE F[k - 1]
    IN F[Len(rows)]

\* the three result sets of the first wave
first_wave_results(req) ==
    LET time_from == Timestamp(req.date_from)
        time_to == Timestamp(req.date_to)
    IN [released_prs |-> map_releases_to_prs(req.repositories, time_from, time_to,
                                             req.pr_blacklist),
        prs |-> _fetch_prs(time_from, time_to, req.repositories, req.participants,
                           req.jira, req.pr_blacklist),
        unreleased |-> IF ~req.exclude_inactive
                       THEN load_inactive_merged_unreleased_prs(time_from, time_to,
                                                                req.repositories)
                       ELSE {}]

\* pd.concat of the result sets, before the duplicates are dropped
concat_prs(req) ==
    LET r == first_wave_results(req)
    IN IF JIRAFilter_bool(req.jira)
       THEN Tagged(r.prs, "_fetch_prs")
            \o Tagged(_filter_jira(r.released_prs \cup r.unreleased, req.jira),
                      "_filter_jira")
       ELSE Tagged(r.prs, "_fetch_prs")
            \o Tagged(r.released_prs, "map_releases_to_prs")
            \o Tagged(r.unreleased, "load_inactive_merged_unreleased_prs")

NoOutcomes == [t \in AllTasks |-> "pending"]

FetchFilterChoices ==
    {f \in FilterChoices : ~LabelFilter_bool(f.labels) /\ f.participants["REVIEWER"] = {}}

FetchRequests(s) == {Request(s, {"A", "B"}, f, s.truncate) : f \in FetchFilterChoices}

FirstWave(outcomes) ==
    /\ fetch.stage = "first"
    /\ UNCHANGED <<cacheVars, mineVars, mined_pr, extracted, listing, compat, engine, keyed>>
    /\ LET results == [t \in AllTasks |-> IF t \in DOMAIN outcomes THEN outcomes[t]
                                          ELSE fetch.outcomes[t]]
           exc == gather_raise([t \in AllTasks |-> IF t \in DOMAIN outcomes
                                                   THEN outcomes[t] ELSE "ok"],
                               first_wave_checked)
       IN IF exc # None
          THEN fetch' = [fetch EXCEPT !.stage = "raised", !.exc = exc,
                                      !.outcomes = results]
          ELSE IF JIRAFilter_bool(fetch.req.jira)
          THEN fetch' = [fetch EXCEPT !.stage = "jira", !.outcomes = results]
          ELSE fetch' = [fetch EXCEPT !.stage = "second", !.outcomes = results,
                                      !.concat = concat_prs(fetch.req),
                                      !.prs = drop_duplicated(concat_prs(fetch.req))]

\* extra_prs = await cls._filter_jira(extra_prs, jira, mdb)
FilterJira(outcome) ==
    /\ fetch.stage = "jira"
    /\ UNCHANGED <<cacheVars, mineVars, mined_pr, extracted, listing, compat, engine, keyed>>
    /\ IF outcome = "failed"
       THEN fetch' = [fetch EXCEPT !.stage = "raised", !.exc = "_filter_jira",
                                   !.outcomes["_filter_jira"] = outcome]
       ELSE fetch' = [fetch EXCEPT !.stage = "second",
                                   !.outcomes["_filter_jira"] = outcome,
                                   !.concat = concat_prs(fetch.req),
                                   !.prs = drop_duplicated(concat_prs(fetch.req))]

\* the second wave, the filters and the return of _mine and of mine
SecondWave(outcomes) ==
    /\ fetch.stage = "second"
    /\ UNCHANGED <<cacheVars, mineVars, mined_pr, extracted, listing, compat, engine, keyed>>
    /\ LET results == [t \in AllTasks |-> IF t \in second_wave_leaves THEN outcomes[t]
                                          ELSE fetch.outcomes[t]]
           exc == _mine_second_wave_raise(outcomes)
       IN IF exc # None
          THEN fetch' = [fetch EXCEPT !.stage = "raised", !.exc = exc,
                                      !.outcomes = results]
          ELSE fetch' = [fetch EXCEPT !.stage = "returned", !.outcomes = results,
                                      !.result = Some(Index(mine_fresh(fetch.req).dfs, "prs"))]

FetchInit ==
    /\ memcached = <<>>
    /\ now = 0
    /\ refresh_on_access = FALSE
    /\ postprocess = TRUE
    /\ pc = [p \in Procs |-> "idle"]
    /\ args = [p \in Procs |-> [number |-> 1, width |-> 1, cache |-> None]]
    /\ local = [p \in Procs |-> NoLocal]
    /\ trace = [p \in Procs |-> NoTrace]
    /\ session \in Sessions
    /\ miner = EmptyDataFrames
    /\ facts = {}
    /\ last = <<>>
    /\ dropped = {}
    /\ calls = 0
    /\ drops = 0
    /\ engine = <<>>
    /\ keyed = <<>>
    /\ mined_pr = <<>>
    /\ extracted = <<>>
    /\ listing = <<>>
    /\ compat = <<>>
    /\ fetch \in {[req |-> req, stage |-> "first", outcomes |-> NoOutcomes, exc |-> None,
                   concat |-> <<>>, prs |-> <<>>, result |-> Absent]
                     : req \in FetchRequests(session)}

FetchNext ==
    \/ \E req \in FetchRequests(session) :
          \E outcomes \in [first_wave_tasks(req) -> TaskOutcomes] :
              fetch.req = req /\ FirstWave(outcomes)
    \/ \E outcome \in TaskOutcomes : FilterJira(outcome)
    \/ \E outcomes \in [second_wave_leaves -> TaskOutcomes] : SecondWave(outcomes)

SpecFetch == FetchInit /\ [][FetchNext]_vars

FailedTasks == {t \in AllTasks : fetch.outcomes[t] = "failed"}

\* C11: if any launched sub-fetch of an assembly fails, first wave or
\* second wave, the assembly raises the failure of one of the failed
\* sub-fetches and returns no snapshot; a snapshot is returned only when
\* every launched sub-fetch succeeded.
C11_FailedFetchRaises ==
    /\ FailedTasks # {} =>
          /\ fetch.stage = "raised"
          /\ fetch.exc \in FailedTasks
          /\ fetch.result = Absent
    /\ fetch.stage = "raised" => fetch.result = Absent /\ fetch.exc \in FailedTasks
    /\ fetch.stage = "returned" => FailedTasks = {} /\ fetch.result # Absent

C11_Witness ==
    /\ fetch.stage = "raised"
    /\ fetch.outcomes["_fetch_prs"] = "ok"
    /\ fetch.outcomes["fetch_labels"] = "failed"
    /\ fetch.exc = "fetch_labels"
    /\ Index(mine_fresh(fetch.req).dfs, "prs") # {}

Concatenated == fetch.stage \in {"second", "returned"}

\* C12: after the first-wave result sets are concatenated each node id
\* occurs once in the pull requests table, and the row kept for an id that
\* several sources supplied is the row of the latest of these sources.
C12_LaterSourceWins ==
    Concatenated =>
        /\ \A k, l \in 1..Len(fetch.prs) :
              fetch.prs[k].node_id = fetch.prs[l].node_id => k = l
        /\ {fetch.prs[k].node_id : k \in 1..Len(fetch.prs)}
              = {fetch.concat[k].node_id : k \in 1..Len(fetch.concat)}
        /\ \A k \in 1..Len(fetch.prs) :
              LET at == {l \in 1..Len(fetch.concat) :
                            fetch.concat[l].node_id = fetch.prs[k].node_id}
              IN fetch.prs[k] = fetch.concat[CHOOSE l \in at : \A m \in at : m <= l]

(***************************************************************************)
(* PullRequestFactsMiner.  A Fallback is its value and its best, both a    *)
(* time or NaT; the backup is given by its best.                           *)
(***************************************************************************)
Fallback(value, backup) == [value |-> value, best |-> IF value # NaT THEN value ELSE backup]

NoFallback == Fallback(NaT, NaT)

Fallback_bool(f) == f.best # NaT

\* min() and max() of a pandas series: NaT when nothing is set
MinT(times) ==
    LET set == times \ {NaT}
    IN IF set = {} THEN NaT ELSE CHOOSE x \in set : \A y \in set : x <= y

MaxT(times) ==
    LET set == times \ {NaT}
    IN IF set = {} THEN NaT ELSE CHOOSE x \in set : \A y \in set : x >= y

dtmin(times) == MinT(times)

Fallback_min(fallbacks) == Fallback(MinT({f.best : f \in fallbacks}), NaT)

Fallback_max(fallbacks) == Fallback(MaxT({f.best : f \in fallbacks}), NaT)

bots == {"bot"}

Rows(reviews) == {reviews[k] : k \in 1..Len(reviews)}

\* mutant: a merged pull request without closed_at stays not closed
closed_or_merged_as_read(merged_at, closed_at) == closed_at

\* if merged_at and not closed_at: closed_at = merged_at
closed_or_merged(merged_at, closed_at) ==
    IF Fallback_bool(merged_at) /\ ~Fallback_bool(closed_at) THEN merged_at ELSE closed_at

\* the rows that the lanes of __call__ take for the approval
grouped_reviews(reviews_before_merge) ==
    LET users == {r.user_id : r \in Rows(reviews_before_merge)}
    IN IF Len(reviews_before_merge) = 0
       THEN \* express lane: dummy_reviews
            {[user_id |-> None, state |-> "INVALID", submitted_at |-> NaT]}
       ELSE IF Cardinality(users) = 1
       THEN \* fast lane: the row of the latest review
            {reviews_before_merge[CHOOSE k \in 1..Len(reviews_before_merge) :
                \A l \in 1..Len(reviews_before_merge) :
                    reviews_before_merge[l].submitted_at
                        <= reviews_before_merge[k].submitted_at]}
       ELSE LET taken == SelectSeq(reviews_before_merge,
                                   LAMBDA r : r.state # "COMMENTED")
                \* sort_values(submitted_at, ascending=False, ignore_index=True)
                sorted == [k \in 1..Len(taken) |->
                              CHOOSE r \in Rows(taken) :
                                  Cardinality({x \in Rows(taken) :
                                      x.submitted_at > r.submitted_at}) = k - 1]
                \* groupby(user_id)._cumcount_array()
                cumcount == [k \in 1..Len(taken) |->
                                Cardinality({l \in 1..(k - 1) :
                                    sorted[l].user_id = sorted[k].user_id})]
                \* np.where(...)[0]: the positions where the count is not zero
                latest_review_ixs == {k \in 1..Len(taken) : cumcount[k] # 0}
            IN {reviews_before_merge[k] : k \in latest_review_ixs}

\* mutant: the comparison of created with closed is left out
_validate_without_created(pr_facts) ==
    IF ~Fallback_bool(pr_facts.closed) THEN TRUE
    ELSE IF Fallback_bool(pr_facts.last_commit) /\ pr_facts.last_commit.best > pr_facts.closed.best
    THEN FALSE
    ELSE IF /\ Fallback_bool(pr_facts.merged) /\ Fallback_bool(pr_facts.released)
            /\ pr_facts.merged.best > pr_facts.released.best
    THEN FALSE
    ELSE TRUE

\* FALSE when ImpossiblePullRequest is raised
_validate(pr_facts) ==
    IF ~Fallback_bool(pr_facts.closed) THEN TRUE
    ELSE IF Fallback_bool(pr_facts.last_commit) /\ pr_facts.last_commit.best > pr_facts.closed.best
    THEN FALSE
    ELSE IF pr_facts.created.best > pr_facts.closed.best
    THEN FALSE
    ELSE IF /\ Fallback_bool(pr_facts.merged) /\ Fallback_bool(pr_facts.released)
            /\ pr_facts.merged.best > pr_facts.released.best
    THEN FALSE
    ELSE TRUE

\* PullRequestFactsMiner.__call__: the facts, or ImpossiblePullRequest
\* mutant: a review request after the first review is kept as it was read
first_review_request_of_as_read(read, backup, last_commit_before_first_review, first_comment_on_first_review) ==
    LET backed == Fallback(read, backup.best)
    IN IF /\ last_commit_before_first_review.value # NaT
          /\ Gt(last_commit_before_first_review.best, backed.best)
       THEN Fallback(last_commit_before_first_review.value, backed.best)
       ELSE backed

\* first_review_request from the first row of pr.review_requests (read) and
\* first_review_request_backup
first_review_request_of(read, backup, last_commit_before_first_review, first_comment_on_first_review) ==
    LET backed == IF /\ Fallback_bool(backup)
                     /\ Gt(read, first_comment_on_first_review.best)
                  THEN Fallback(backup.best, NaT)
                  ELSE Fallback(read, backup.best)
    IN IF /\ last_commit_before_first_review.value # NaT
          /\ Gt(last_commit_before_first_review.best, backed.best)
       THEN Fallback(last_commit_before_first_review.value, backed.best)
       ELSE backed

PullRequestFactsMiner_call(pr) ==
    LET created_at == Fallback(pr.pr.created_at, NaT)
        merged_at == Fallback(pr.pr.merged_at, NaT)
        closed_at == closed_or_merged(merged_at, Fallback(pr.pr.closed_at, NaT))
        committed_dates == {c.committed_date : c \in pr.commits}
        first_commit_read == Fallback(MinT({c.authored_date : c \in pr.commits}), NaT)
        last_commit_read == Fallback(MaxT(committed_dates), NaT)
        external_comments_times ==
            {c.created_at : c \in {x \in pr.comments :
                x.user_login # pr.pr.user_login /\ x.user_login \notin bots}}
        first_comment_any ==
            dtmin({MinT({c.created_at : c \in pr.review_comments}),
                   MinT({r.submitted_at : r \in Rows(pr.reviews)}),
                   MinT(external_comments_times)})
        first_comment ==
            IF Fallback_bool(closed_at) /\ Gt(first_comment_any, closed_at.best)
            THEN NaT ELSE first_comment_any
        first_comment_on_first_review == Fallback(first_comment, merged_at.best)
        reviewed == Fallback_bool(first_comment_on_first_review)
        last_commit_before_first_review ==
            IF reviewed
            THEN Fallback(MaxT({d \in committed_dates :
                                  d <= first_comment_on_first_review.best}),
                          first_comment_on_first_review.best)
            ELSE NoFallback
        first_commit ==
            IF reviewed
            THEN Fallback_min({first_commit_read, last_commit_before_first_review})
            ELSE first_commit_read
        last_commit ==
            IF reviewed THEN Fallback_max({last_commit_read, first_commit})
            ELSE last_commit_read
        first_review_request_backup ==
            IF reviewed
            THEN Fallback_min({Fallback_max({created_at, last_commit_before_first_review}),
                               first_comment_on_first_review})
            ELSE NoFallback
        first_review_request ==
            first_review_request_of(MinT({r.created_at : r \in pr.review_requests}),
                                    first_review_request_backup,
                                    last_commit_before_first_review,
                                    first_comment_on_first_review)
        review_submitted_ats == {r.submitted_at : r \in Rows(pr.reviews)}
        last_review ==
            IF Fallback_bool(closed_at)
            THEN LET last_review_at ==
                        MaxT({r.submitted_at : r \in {x \in Rows(pr.reviews) :
                                \/ x.submitted_at <= closed_at.best
                                \/ x.state # "COMMENTED"}})
                 IN Fallback(IF last_review_at # NaT
                             THEN MinT({last_review_at, closed_at.best}) ELSE NaT,
                             dtmin({MaxT({t \in external_comments_times :
                                            t <= closed_at.best})}))
            ELSE Fallback(MaxT(review_submitted_ats), dtmin({MaxT(external_comments_times)}))
        reviews_before_merge ==
            IF Fallback_bool(merged_at)
            THEN SelectSeq(pr.reviews, LAMBDA r : r.submitted_at <= merged_at.best)
            ELSE pr.reviews
        grouped == grouped_reviews(reviews_before_merge)
        changes_requested == \E r \in grouped : r.state = "CHANGES_REQUESTED"
        approved_at_read ==
            MaxT({r.submitted_at : r \in {x \in grouped : x.state = "APPROVED"}})
        approved_at_value ==
            IF changes_requested THEN NaT
            ELSE IF approved_at_read # NaT /\ Fallback_bool(closed_at)
            THEN MinT({approved_at_read, closed_at.best})
            ELSE approved_at_read
        pr_facts ==
            [created |-> created_at,
             first_commit |-> first_commit,
             last_commit_before_first_review |-> last_commit_before_first_review,
             last_commit |-> last_commit,
             merged |-> merged_at,
             first_comment_on_first_review |-> first_comment_on_first_review,
             first_review_request |-> first_review_request,
             last_review |-> last_review,
             approved |-> Fallback(approved_at_value, NaT),
             first_passed_checks |-> NoFallback,
             last_passed_checks |-> NoFallback,
             released |-> Fallback(pr.release.published_at, NaT),
             closed |-> closed_at,
             force_push_dropped |-> pr.release.matched_by = "force_push_drop",
             size |-> IF pr.pr.additions = Absent \/ pr.pr.deletions = Absent THEN 0
                      ELSE The(pr.pr.additions) + The(pr.pr.deletions)]
    IN IF pr.pr.additions = Absent \/ pr.pr.deletions = Absent
       THEN [status |-> "ImpossiblePullRequest", facts |-> <<>>]
       ELSE IF ~_validate(pr_facts)
       THEN [status |-> "ImpossiblePullRequest", facts |-> <<>>]
       ELSE [status |-> "ok", facts |-> pr_facts]

(***************************************************************************)
(* The pull requests given to the facts miner.  The reviews are the rows   *)
(* of pr.reviews in their order; their submitted_at are distinct.          *)
(***************************************************************************)
MaxReviews == 3
MaxReviewTime == 3

MinedPullRequest(created_at, merged_at, closed_at, additions, commits, comments, review_requests, published_at, reviews) ==
    [pr |-> [user_login |-> "u0", created_at |-> created_at, merged_at |-> merged_at,
             closed_at |-> closed_at, additions |-> additions, deletions |-> Some(1)],
     commits |-> commits, comments |-> comments, review_comments |-> {},
     review_requests |-> review_requests,
     release |-> [published_at |-> published_at, matched_by |-> "branch"],
     reviews |-> reviews]

\* every combination of the other tables with at most one review, and every
\* sequence of reviews of a pull request without other rows
MinedPullRequests ==
    LET ReviewRows == [user_id : {"u1", "u2"},
                       state : {"APPROVED", "CHANGES_REQUESTED", "COMMENTED"},
                       submitted_at : 1..MaxReviewTime]
        ReviewSeqs(n) ==
            UNION {{q \in [1..m -> ReviewRows] :
                       \A k, l \in 1..m : q[k].submitted_at = q[l].submitted_at => k = l}
                   : m \in 0..n}
        MinedWithTables ==
            {MinedPullRequest(created_at, mc[1], mc[2], Some(1), commits, comments,
                              review_requests, published_at, reviews) :
                created_at \in {0, 3},
                mc \in {<<NaT, NaT>>, <<NaT, 2>>, <<2, 2>>, <<2, NaT>>},
                commits \in {{}, {[authored_date |-> 0, committed_date |-> 1]},
                             {[authored_date |-> 0, committed_date |-> 4]}},
                comments \in {{}, {[user_login |-> "u3", created_at |-> 1]},
                              {[user_login |-> "bot", created_at |-> 1],
                               [user_login |-> "u3", created_at |-> 3]}},
                review_requests \in {{}, {[created_at |-> 0]}, {[created_at |-> 3]}},
                published_at \in {NaT, 1, 3},
                reviews \in ReviewSeqs(1)}
        MinedWithReviews ==
            {MinedPullRequest(0, mc[1], mc[2], Some(1), {}, {}, {}, NaT, reviews) :
                mc \in {<<NaT, NaT>>, <<2, 2>>, <<3, 3>>, <<3, NaT>>},
                reviews \in ReviewSeqs(MaxReviews)}
            \cup {MinedPullRequest(0, 2, 2, Absent, {}, {}, {}, NaT, <<>>)}
    IN MinedWithTables \cup MinedWithReviews

Extract ==
    /\ extracted.status = "pending"
    /\ extracted' = PullRequestFactsMiner_call(mined_pr)
    /\ UNCHANGED <<cacheVars, mineVars, fetch, mined_pr, listing, compat, engine, keyed>>

FactsInit ==
    /\ memcached = <<>>
    /\ now = 0
    /\ refresh_on_access = FALSE
    /\ postprocess = TRUE
    /\ pc = [p \in Procs |-> "idle"]
    /\ args = [p \in Procs |-> [number |-> 1, width |-> 1, cache |-> None]]
    /\ local = [p \in Procs |-> NoLocal]
    /\ trace = [p \in Procs |-> NoTrace]
    /\ session = <<>>
    /\ miner = <<>>
    /\ facts = {}
    /\ last = <<>>
    /\ dropped = {}
    /\ calls = 0
    /\ drops = 0
    /\ engine = <<>>
    /\ keyed = <<>>
    /\ fetch = <<>>
    /\ mined_pr \in MinedPullRequests
    /\ extracted = [status |-> "pending", facts |-> <<>>]
    /\ listing = <<>>
    /\ compat = <<>>

FactsNext == Extract

SpecFacts == FactsInit /\ [][FactsNext]_vars

Survived == extracted.status = "ok"

\* C16: every facts record that the facts miner returns satisfies: if
\* closed is set then created.best <= closed.best and, when there is a
\* last commit, last_commit.best <= closed.best; and merged and released
\* are never both set with merged.best > released.best.
C16_SurvivingFactsConsistent ==
    Survived =>
        LET f == extracted.facts
        IN /\ Fallback_bool(f.closed) =>
                /\ f.created.best <= f.closed.best
                /\ Fallback_bool(f.last_commit) => f.last_commit.best <= f.closed.best
           /\ ~(/\ Fallback_bool(f.merged) /\ Fallback_bool(f.released)
                /\ f.merged.best > f.released.best)

C16_Witness ==
    /\ Survived
    /\ Fallback_bool(extracted.facts.closed)
    /\ Fallback_bool(extracted.facts.merged)
    /\ Fallback_bool(extracted.facts.released)
    /\ mined_pr.commits # {}
    /\ extracted.facts.last_commit.best < extracted.facts.closed.best
    /\ extracted.facts.merged.best < extracted.facts.released.best

MergedNotClosed ==
    /\ extracted.status # "pending"
    /\ mined_pr.pr.merged_at # NaT
    /\ mined_pr.pr.closed_at = NaT

\* C18: for a pull request with merged_at set and closed_at null the facts
\* have closed set with closed.best = merged.best, and the result is the
\* one for the same pull request closed at merged_at: every later step
\* takes it as closed at that time.
C18_MergedImpliesClosed ==
    MergedNotClosed =>
        /\ extracted = PullRequestFactsMiner_call(
                           [mined_pr EXCEPT !.pr.closed_at = mined_pr.pr.merged_at])
        /\ Survived =>
              /\ Fallback_bool(extracted.facts.closed)
              /\ extracted.facts.closed.best = extracted.facts.merged.best

C18_Witness ==
    /\ MergedNotClosed
    /\ Survived
    /\ \E r \in Rows(mined_pr.reviews) : r.submitted_at > mined_pr.pr.merged_at
    /\ extracted.facts.last_review.best = mined_pr.pr.merged_at

\* C19: when a CHANGES_REQUESTED review was submitted after the most recent
\* APPROVED review, both at or before merged, approved is absent, for any
\* number of reviewers and any COMMENTED reviews in between.
C19_ChangesRequestedAfterApproval ==
    (Survived /\ mined_pr.pr.merged_at # NaT) =>
        LET before == {r \in Rows(mined_pr.reviews) :
                          r.submitted_at <= mined_pr.pr.merged_at}
            approvals == {r.submitted_at : r \in {x \in before : x.state = "APPROVED"}}
            rejections == {r.submitted_at :
                              r \in {x \in before : x.state = "CHANGES_REQUESTED"}}
        IN (approvals # {} /\ \E t \in rejections : t > MaxT(approvals))
               => ~Fallback_bool(extracted.facts.approved)

\* C27: in every facts record in which first_review_request and
\* first_comment_on_first_review are both set, first_review_request.best is
\* not later than first_comment_on_first_review.best and not earlier than
\* the own value of last_commit_before_first_review when it has one.
C27_ReviewRequestBetweenCommitAndReview ==
    (/\ Survived
     /\ Fallback_bool(extracted.facts.first_review_request)
     /\ Fallback_bool(extracted.facts.first_comment_on_first_review)) =>
        /\ extracted.facts.first_review_request.best
               <= extracted.facts.first_comment_on_first_review.best
        /\ extracted.facts.last_commit_before_first_review.value # NaT =>
               extracted.facts.first_review_request.best
                   >= extracted.facts.last_commit_before_first_review.value

\* a review was requested after the first review, which saw a commit
C27_Witness ==
    /\ Survived
    /\ extracted.facts.last_commit_before_first_review.value # NaT
    /\ \E r \in mined_pr.review_requests :
          r.created_at > extracted.facts.first_comment_on_first_review.best

\* C28: take the reviews submitted at or before merged (all reviews of an
\* unmerged pull request) and of each reviewer the most recent one that is
\* not COMMENTED.  When none of these is CHANGES_REQUESTED, approved is the
\* latest submitted_at of those that are APPROVED, capped at closed, and is
\* absent when there is none, for one reviewer as for several.
C28_ApprovedIsLatestApproval ==
    Survived =>
        LET before == {r \in Rows(mined_pr.reviews) :
                          mined_pr.pr.merged_at # NaT =>
                              r.submitted_at <= mined_pr.pr.merged_at}
            verdicts == {r \in before : r.state # "COMMENTED"}
            latest == {r \in verdicts :
                          \A x \in verdicts :
                              x.user_id = r.user_id => x.submitted_at <= r.submitted_at}
            approvals == {r.submitted_at : r \in {x \in latest : x.state = "APPROVED"}}
            closed == extracted.facts.closed
            expected == IF approvals = {} THEN NaT
                        ELSE IF Fallback_bool(closed)
                             THEN MinT({MaxT(approvals), closed.best})
                             ELSE MaxT(approvals)
        IN (\A r \in latest : r.state # "CHANGES_REQUESTED") =>
               extracted.facts.approved = Fallback(expected, NaT)

(***************************************************************************)
(* PullRequestListMiner: the iteration over the pairs of a pull request as *)
(* of time_to and as of today.  listing.pos is the pair the loop is at.    *)
(***************************************************************************)
MaxBatch == 3

StageProperties == {"WIP", "REVIEWING", "MERGING", "RELEASING", "DONE"}

_no_time_from == 0

_collect_properties(times, pr, time_from) ==
    LET stage ==
            IF Fallback_bool(times.released)
               \/ (Fallback_bool(times.closed) /\ ~Fallback_bool(times.merged))
            THEN "DONE"
            ELSE IF Fallback_bool(times.merged) THEN "RELEASING"
            ELSE IF Fallback_bool(times.approved) THEN "MERGING"
            ELSE IF Fallback_bool(times.first_review_request) THEN "REVIEWING"
            ELSE "WIP"
        happened(name, cond) == IF cond THEN {name} ELSE {}
    IN {stage}
       \cup happened("CREATED", times.created.best > time_from)
       \cup happened("COMMIT_HAPPENED", \E c \in pr.commits : c.committed_date > time_from)
       \cup happened("REVIEW_HAPPENED",
                     \E r \in Rows(pr.reviews) :
                         r.submitted_at > time_from /\ r.user_id # pr.pr.user_login)
       \cup happened("REVIEW_REQUEST_HAPPENED",
                     /\ times.first_review_request.value # NaT
                     /\ times.first_review_request.value > time_from)
       \cup happened("APPROVE_HAPPENED",
                     Fallback_bool(times.approved) /\ times.approved.best > time_from)
       \cup happened("MERGE_HAPPENED",
                     Fallback_bool(times.merged) /\ times.merged.best > time_from)
       \cup happened("REJECTION_HAPPENED",
                     /\ ~Fallback_bool(times.merged)
                     /\ Fallback_bool(times.closed)
                     /\ times.closed.best > time_from)
       \cup happened("RELEASE_HAPPENED",
                     Fallback_bool(times.released) /\ times.released.best > time_from)
       \cup happened("CHANGES_REQUEST_HAPPENED",
                     \E r \in Rows(pr.reviews) :
                         r.state = "CHANGES_REQUESTED" /\ r.submitted_at > time_from)

\* _compile with times_today still to be computed: the item, no item, or
\* the ImpossiblePullRequest of the facts miner
_compile(properties, time_from, node_id, pr_time_machine, times_time_machine, pr_today, times_today) ==
    LET props_time_machine ==
            _collect_properties(times_time_machine, pr_time_machine, time_from)
    IN IF properties \cap props_time_machine = {}
       THEN [status |-> "None", item |-> <<>>]
       ELSE IF times_today.status # "ok"
       THEN [status |-> "ImpossiblePullRequest", item |-> <<>>]
       ELSE LET props_today ==
                    _collect_properties(times_today.facts, pr_today, _no_time_from)
            IN [status |-> "ok",
                item |-> [node_id |-> node_id,
                          properties |-> (props_today \ StageProperties)
                                         \cup (props_time_machine \cap StageProperties),
                          closed |-> times_today.facts.closed.best,
                          merged |-> times_today.facts.merged.best,
                          released |-> times_today.facts.released.best]]

\* one pass of the loop body of __iter__ on the pair at listing.pos
iter_body(l) ==
    LET pair == l.prs[l.pos]
        hit == pair.precomputed # Absent
        \* except KeyError: the facts of pr_time_machine are mined at once
        times_time_machine ==
            IF hit THEN [status |-> "ok", facts |-> The(pair.precomputed)]
            ELSE PullRequestFactsMiner_call(pair.time_machine)
        \* partial(self._times_miner, pr_today), called inside _compile
        times_today ==
            IF hit THEN [status |-> "ok", facts |-> The(pair.precomputed)]
            ELSE PullRequestFactsMiner_call(pair.today)
        compiled == _compile(l.properties, l.time_from, l.pos, pair.time_machine,
                             times_time_machine.facts, pair.today, times_today)
        evals == IF hit THEN l.evals ELSE l.evals + 1
    IN IF times_time_machine.status # "ok"
       THEN [l EXCEPT !.raised = times_time_machine.status]
       ELSE IF compiled.status = "ok"
       THEN [l EXCEPT !.pos = @ + 1, !.evals = evals,
                      !.yielded = Append(@, compiled.item)]
       ELSE [l EXCEPT !.pos = @ + 1, !.evals = evals]

IterStep ==
    /\ listing.raised = None
    /\ listing.pos <= Len(listing.prs)
    /\ listing' = iter_body(listing)
    /\ UNCHANGED <<cacheVars, mineVars, fetch, mined_pr, extracted, compat, engine, keyed>>

\* after the loop: the counters of precomputed hits and misses
IterStop ==
    /\ listing.raised = None
    /\ listing.pos = Len(listing.prs) + 1
    /\ ~listing.exhausted
    /\ listing' = [listing EXCEPT !.exhausted = TRUE,
                                  !.precomputed_hits = Len(listing.prs) - listing.evals,
                                  !.precomputed_misses = listing.evals]
    /\ UNCHANGED <<cacheVars, mineVars, fetch, mined_pr, extracted, compat, engine, keyed>>

\* the pull requests of a batch, as of time_to and as of today
ListedPairs ==
    LET Open == MinedPullRequest(1, NaT, NaT, Some(1), {}, {}, {}, NaT, <<>>)
        Merged == MinedPullRequest(1, 3, 3, Some(1), {}, {}, {}, NaT, <<>>)
        Released == MinedPullRequest(1, 3, 3, Some(1), {}, {}, {}, 4, <<>>)
        CreatedAfterClosed == MinedPullRequest(3, NaT, 2, Some(1), {}, {}, {}, NaT, <<>>)
        ReleasedBeforeMerged == MinedPullRequest(1, 3, 3, Some(1), {}, {}, {}, 2, <<>>)
        NullAdditions == MinedPullRequest(1, NaT, NaT, Absent, {}, {}, {}, NaT, <<>>)
        approval == [user_id |-> "u1", state |-> "APPROVED", submitted_at |-> 3]
        rejection == [user_id |-> "u1", state |-> "CHANGES_REQUESTED", submitted_at |-> 5]
        Approved == MinedPullRequest(1, NaT, NaT, Some(1), {}, {}, {}, NaT, <<approval>>)
        Rejected == MinedPullRequest(1, NaT, NaT, Some(1), {}, {}, {}, NaT,
                                     <<approval, rejection>>)
        Pair(time_machine, today, precomputed) ==
            [time_machine |-> time_machine, today |-> today, precomputed |-> precomputed]
    IN {Pair(Open, Open, Absent),
        Pair(Open, Merged, Absent),
        Pair(Merged, Released, Absent),
        Pair(Approved, Rejected, Absent),
        Pair(Released, Released, Some(PullRequestFactsMiner_call(Released).facts)),
        Pair(Merged, ReleasedBeforeMerged, Absent),
        Pair(CreatedAfterClosed, CreatedAfterClosed, Absent),
        Pair(NullAdditions, NullAdditions, Absent)}

Batches == UNION {[1..n -> ListedPairs] : n \in 1..MaxBatch}

ListInit ==
    /\ memcached = <<>>
    /\ now = 0
    /\ refresh_on_access = FALSE
    /\ postprocess = TRUE
    /\ pc = [p \in Procs |-> "idle"]
    /\ args = [p \in Procs |-> [number |-> 1, width |-> 1, cache |-> None]]
    /\ local = [p \in Procs |-> NoLocal]
    /\ trace = [p \in Procs |-> NoTrace]
    /\ session = <<>>
    /\ miner = <<>>
    /\ facts = {}
    /\ last = <<>>
    /\ dropped = {}
    /\ calls = 0
    /\ drops = 0
    /\ engine = <<>>
    /\ keyed = <<>>
    /\ fetch = <<>>
    /\ mined_pr = <<>>
    /\ extracted = <<>>
    /\ compat = <<>>
    /\ \E prs \in Batches, properties \in {{"WIP", "RELEASING", "DONE"}, {"DONE"},
                                               {"APPROVE_HAPPENED"}} :
          listing = [prs |-> prs, properties |-> properties, time_from |-> 2,
                     pos |-> 1, evals |-> 0, yielded |-> <<>>, raised |-> None,
                     exhausted |-> FALSE, precomputed_hits |-> 0,
                     precomputed_misses |-> 0]

ListNext == IterStep \/ IterStop

SpecList == ListInit /\ [][ListNext]_vars

\* C17: when the facts miner rejects a pull request of the batch as
\* impossible, the iteration does not raise: it leaves out that pull
\* request alone and goes on, so that at the end the items are those of
\* the same batch without the rejected pairs.
C17_RejectedItemSkipped ==
    /\ listing.raised = None
    /\ listing.exhausted =>
          LET rest == SelectSeq(listing.prs,
                          LAMBDA pair :
                              \/ pair.precomputed # Absent
                              \/ /\ PullRequestFactsMiner_call(pair.time_machine).status = "ok"
                                 /\ PullRequestFactsMiner_call(pair.today).status = "ok")
              RECURSIVE run(_)
              run(l) == IF l.pos > Len(l.prs) THEN l ELSE run(iter_body(l))
              expected == run([listing EXCEPT !.prs = rest, !.pos = 1, !.evals = 0,
                                              !.yielded = <<>>, !.exhausted = FALSE])
          IN [k \in 1..Len(listing.yielded) |->
                  [listing.yielded[k] EXCEPT !.node_id = 0]]
             = [k \in 1..Len(expected.yielded) |->
                  [expected.yielded[k] EXCEPT !.node_id = 0]]

(***************************************************************************)
(* The compatibility of two filters against what the filters select: a     *)
(* snapshot mined under the cached filter is pruned by the requested one   *)
(* and compared with the pull requests mined under the requested filter.   *)
(***************************************************************************)
\* one pull request for each set of labels
LabelledPRs ==
    LET LabelNames == {"bug", "perf", "wip"}
        \* the name as it is spelled on some of the pull requests
        written(name) == CASE name = "bug" -> "Bug" [] name = "wip" -> "WIP" [] OTHER -> name
        code(names) == (IF "bug" \in names THEN 1 ELSE 0)
                       + (IF "perf" \in names THEN 2 ELSE 0)
                       + (IF "wip" \in names THEN 4 ELSE 0) + 1
    IN [EmptyDataFrames EXCEPT
          !.prs = {PR(code(names), "A", "u1", None, 2, NaT, NaT) : names \in SUBSET LabelNames},
          !.labels = UNION {{[pr |-> code(names), node_id |-> name,
                               name |-> IF Cardinality(names) = 2 THEN name
                                        ELSE written(name)]
                                : name \in names} : names \in SUBSET LabelNames}]

\* the pull requests that _mine keeps under a labels filter
mined_by_labels(dfs, labels) == _drop(dfs, _find_drop_by_labels(dfs, labels))

\* the pull requests that _mine keeps under a JIRA filter, with their issues
mined_by_jira(prs, jira) ==
    LET left == IF JIRAFilter_bool(jira) THEN _filter_jira(prs, jira) ELSE prs
    IN [EmptyDataFrames EXCEPT !.prs = left, !.jiras = fetch_jira(PRIds(left))]

CheckLabels ==
    /\ compat.kind = "labels"
    /\ compat.stage = "asked"
    /\ LET snapshot == mined_by_labels(LabelledPRs, compat.cached)
       IN compat' = [compat EXCEPT
            !.stage = "answered",
            !.compatible = LabelFilter_compatible_with(compat.cached, compat.requested),
            !.snapshot = Index(snapshot, "prs"),
            !.pruned = Index(_drop(snapshot,
                                   _find_drop_by_labels(snapshot, compat.requested)), "prs"),
            !.fresh = Index(mined_by_labels(LabelledPRs, compat.requested), "prs")]
    /\ UNCHANGED <<cacheVars, mineVars, fetch, mined_pr, extracted, listing, engine, keyed>>

CheckJIRA ==
    /\ compat.kind = "jira"
    /\ compat.stage = "asked"
    /\ LET snapshot == mined_by_jira(mdb_prs, compat.cached)
       IN compat' = [compat EXCEPT
            !.stage = "answered",
            !.compatible = JIRAFilter_compatible_with(compat.cached, compat.requested),
            !.snapshot = Index(snapshot, "prs"),
            !.pruned = Index(_drop(snapshot,
                                   _find_drop_by_jira(snapshot, compat.requested)), "prs"),
            !.fresh = Index(mined_by_jira(mdb_prs, compat.requested), "prs")]
    /\ UNCHANGED <<cacheVars, mineVars, fetch, mined_pr, extracted, listing, engine, keyed>>

CompatInit ==
    /\ memcached = <<>>
    /\ now = 0
    /\ refresh_on_access = FALSE
    /\ postprocess = TRUE
    /\ pc = [p \in Procs |-> "idle"]
    /\ args = [p \in Procs |-> [number |-> 1, width |-> 1, cache |-> None]]
    /\ local = [p \in Procs |-> NoLocal]
    /\ trace = [p \in Procs |-> NoTrace]
    /\ session = <<>>
    /\ miner = <<>>
    /\ facts = {}
    /\ last = <<>>
    /\ dropped = {}
    /\ calls = 0
    /\ drops = 0
    /\ engine = <<>>
    /\ keyed = <<>>
    /\ fetch = <<>>
    /\ mined_pr = <<>>
    /\ extracted = <<>>
    /\ listing = <<>>
    /\ LET LabelFilters ==
               {LabelFilter(include, exclude) :
                   include \in SUBSET {{"bug"}, {"perf"}, {"bug", "perf"}},
                   exclude \in SUBSET {"wip", "perf"}}
           JIRAFilters ==
               {JIRAFilter(labels, epics, issue_types) :
                   labels \in {LabelFilter_empty, LabelFilter({{"x"}}, {}),
                               LabelFilter({}, {"y"}), LabelFilter({{"x"}, {"y"}}, {})},
                   epics \in {{}, {"e1"}},
                   issue_types \in {{}, {"bug"}, {"bug", "task"}}}
           Asked(kind, cached, requested) ==
               [kind |-> kind, cached |-> cached, requested |-> requested,
                stage |-> "asked", compatible |-> FALSE, snapshot |-> {},
                pruned |-> {}, fresh |-> {}]
       IN \/ \E cached \in LabelFilters, requested \in LabelFilters :
                compat = Asked("labels", cached, requested)
          \/ \E cached \in JIRAFilters, requested \in JIRAFilters :
                compat = Asked("jira", cached, requested)

CompatNext == CheckLabels \/ CheckJIRA

SpecCompat == CompatInit /\ [][CompatNext]_vars

\* C20: whenever the cached filter is compatible with the requested one,
\* for two label filters or two JIRA filters, every pull request that passes
\* the requested filter passes the cached filter, and the cached set pruned
\* by the requested filter is the set filtered from scratch; and
\* include = {bug} is not compatible with include = {bug, perf}.
C20_CompatibleFilterServes ==
    /\ (compat.stage = "answered" /\ compat.compatible) =>
          /\ compat.fresh \subseteq compat.snapshot
          /\ compat.pruned = compat.fresh
    /\ ~LabelFilter_compatible_with(LabelFilter({{"bug"}}, {}),
                                    LabelFilter({{"bug"}, {"perf"}}, {}))

\* C21: under a non-empty label filter a pull request is kept exactly when
\* (include is empty, or it carries a single include label, or all labels
\* of an include group) and it carries no excluded label, names compared
\* without case; a pull request without labels is kept by a filter that
\* only excludes.
C21_LabelFilterKeeps ==
    (compat.stage = "answered" /\ compat.kind = "labels" /\ LabelFilter_bool(compat.cached)) =>
        compat.snapshot =
            {id \in Index(LabelledPRs, "prs") :
                LET names == {str_lower(r.name) : r \in {x \in LabelledPRs.labels : x.pr = id}}
                IN /\ \/ compat.cached.include = {}
                      \/ \E group \in compat.cached.include : group \subseteq names
                   /\ names \cap compat.cached.exclude = {}}

(***************************************************************************)
(* The filter engine and the iteration, one call on one snapshot.          *)
(* engine.dfs0 is the snapshot before the call, engine.dfs after it.       *)
(***************************************************************************)
\* the tables of every pull request of the metadata DB, and of one more
\* whose author reviewed it and commented on it at the end of the window
Snapshots ==
    LET full == _mine_by_ids(mdb_prs, {}, NaT, FALSE)
        more == [full EXCEPT
                    !.prs = @ \cup {PR(7, "A", "u1", None, 0, NaT, NaT)},
                    !.reviews = @ \cup {[pr |-> 7, node_id |-> "r7", submitted_at |-> 1,
                                         user_login |-> "u1", state |-> "APPROVED"]},
                    !.comments = @ \cup {[pr |-> 7, node_id |-> "ic7", created_at |-> 6,
                                          user_login |-> "u1"]}]
    IN {_drop(more, removed) : removed \in SUBSET {1, 2, 7}}

EngineCalls ==
    LET Asked(call, dfs, participants, labels, jira, cut, truncate, exclude_inactive) ==
            [call |-> call, stage |-> "called", dfs0 |-> dfs, dfs |-> dfs,
             participants |-> participants, labels |-> labels, jira |-> jira,
             date_from |-> 1, date_to |-> 3, cut |-> cut, truncate |-> truncate,
             exclude_inactive |-> exclude_inactive, to_drop |-> {}, inactive |-> {}]
        people == {NoParticipants, [NoParticipants EXCEPT !["AUTHOR"] = {"u1"},
                                                          !["REVIEWER"] = {"u1"}]}
                  \cup {[NoParticipants EXCEPT ![k] = {u}] : k \in Roles, u \in {"u1", "u2", "u3"}}
        label_filters == {LabelFilter_empty, LabelFilter({{"bug"}}, {}), LabelFilter({}, {"wip"})}
        jira_filters == {JIRAFilter_empty, JIRAFilter(LabelFilter_empty, {}, {"bug"}),
                         JIRAFilter(LabelFilter({{"x"}}, {}), {"e1"}, {})}
    IN {Asked("participants", dfs, participants, LabelFilter_empty, JIRAFilter_empty, cut,
              FALSE, FALSE) :
            dfs \in Snapshots, participants \in people, cut \in {NaT, 4, 6}}
       \cup {Asked("labels", dfs, NoParticipants, labels, JIRAFilter_empty, NaT, FALSE, FALSE) :
            dfs \in Snapshots, labels \in label_filters}
       \cup {Asked("jira", dfs, NoParticipants, LabelFilter_empty, jira, NaT, FALSE, FALSE) :
            dfs \in Snapshots, jira \in jira_filters}
       \cup {Asked("inactive", dfs, NoParticipants, LabelFilter_empty, JIRAFilter_empty, NaT,
              FALSE, TRUE) : dfs \in Snapshots}
       \cup {Asked("_mine", dfs, participants, labels, JIRAFilter_empty, NaT, truncate,
              exclude_inactive) :
            dfs \in Snapshots, participants \in people, labels \in label_filters,
            truncate \in BOOLEAN, exclude_inactive \in BOOLEAN}

Answer(to_drop, inactive, dfs) ==
    /\ engine.stage = "called"
    /\ engine' = [engine EXCEPT !.stage = "returned", !.to_drop = to_drop,
                                !.inactive = inactive, !.dfs = dfs]
    /\ UNCHANGED <<cacheVars, mineVars, fetch, mined_pr, extracted, listing, compat, keyed>>

FindDropByParticipants ==
    /\ engine.call = "participants"
    /\ Answer(_find_drop_by_participants(engine.dfs, engine.participants, engine.cut), {},
              _find_drop_by_participants_dfs(engine.dfs, engine.participants, engine.cut))

FindDropByLabels ==
    /\ engine.call = "labels"
    /\ Answer(_find_drop_by_labels(engine.dfs, engine.labels), {}, engine.dfs)

FindDropByJira ==
    /\ engine.call = "jira"
    /\ Answer(_find_drop_by_jira(engine.dfs, engine.jira), {}, engine.dfs)

FindDropByInactive ==
    /\ engine.call = "inactive"
    /\ LET inactive_prs == _find_drop_by_inactive(engine.dfs, Timestamp(engine.date_from),
                                                  Timestamp(engine.date_to))
       IN Answer(inactive_prs, inactive_prs, engine.dfs)

\* the filters of _mine and the drop that follows them
MineFilters ==
    /\ engine.call = "_mine"
    /\ LET cut == IF engine.truncate THEN NaT ELSE Timestamp(engine.date_to)
           dfs1 == _find_drop_by_participants_dfs(engine.dfs, engine.participants, cut)
           to_drop == _mine_to_drop(engine, engine.dfs)
       IN Answer(to_drop,
                 IF engine.exclude_inactive
                 THEN _find_drop_by_inactive(dfs1, Timestamp(engine.date_from),
                                             Timestamp(engine.date_to))
                 ELSE {},
                 _drop(dfs1, to_drop))

EngineInit ==
    /\ memcached = <<>>
    /\ now = 0
    /\ refresh_on_access = FALSE
    /\ postprocess = TRUE
    /\ pc = [p \in Procs |-> "idle"]
    /\ args = [p \in Procs |-> [number |-> 1, width |-> 1, cache |-> None]]
    /\ local = [p \in Procs |-> NoLocal]
    /\ trace = [p \in Procs |-> NoTrace]
    /\ session = <<>>
    /\ miner = <<>>
    /\ facts = {}
    /\ last = <<>>
    /\ dropped = {}
    /\ calls = 0
    /\ drops = 0
    /\ fetch = <<>>
    /\ mined_pr = <<>>
    /\ extracted = <<>>
    /\ listing = <<>>
    /\ compat = <<>>
    /\ engine \in EngineCalls
    /\ keyed = <<>>

EngineNext ==
    \/ FindDropByParticipants
    \/ FindDropByLabels
    \/ FindDropByJira
    \/ FindDropByInactive
    \/ MineFilters

SpecEngine == EngineInit /\ [][EngineNext]_vars

\* C22: the drop set of the participants filter is the set of the pull
\* requests that match no requested role: author, merger (merged before the
\* cutoff), releaser (released before it), and a review, comment or commit
\* row (before the cutoff) of a requested login, where a review by the
\* author of the pull request itself does not count; without a participants
\* filter the drop set is empty.
C22_ParticipantsDropSet ==
    (engine.stage = "returned" /\ engine.call = "participants") =>
        LET want == engine.participants
            before(t) == engine.cut = NaT \/ Lt(t, engine.cut)
            matches(pr) ==
                \/ pr.user_login \in want["AUTHOR"]
                \/ pr.merged_by_login \in want["MERGER"] /\ before(pr.merged_at)
                \/ \E r \in engine.dfs0.releases :
                      r.pr = pr.node_id /\ r.author \in want["RELEASER"]
                      /\ before(r.published_at)
                \/ \E r \in engine.dfs0.reviews :
                      /\ r.pr = pr.node_id /\ before(r.submitted_at)
                      /\ r.user_login \in want["REVIEWER"] /\ r.user_login # pr.user_login
                \/ \E r \in engine.dfs0.comments :
                      r.pr = pr.node_id /\ before(r.created_at)
                      /\ r.user_login \in want["COMMENTER"]
                \/ \E r \in engine.dfs0.commits :
                      /\ r.pr = pr.node_id /\ before(r.committed_date)
                      /\ \/ r.author_login \in want["COMMIT_AUTHOR"]
                         \/ r.committer_login \in want["COMMIT_COMMITTER"]
        IN engine.to_drop =
              IF \A k \in Roles : want[k] = {} THEN {}
              ELSE {pr.node_id : pr \in {x \in engine.dfs0.prs : ~matches(x)}}

C22_Witness ==
    /\ engine.stage = "returned"
    /\ engine.call = "participants"
    /\ engine.participants["REVIEWER"] = {"u1"}
    /\ engine.participants["AUTHOR"] = {}
    /\ {2, 7} \subseteq Index(engine.dfs0, "prs")
    /\ 7 \in engine.to_drop
    /\ 2 \notin engine.to_drop

\* C26: the functions that compute the drop sets leave every table of the
\* snapshot as it was, whatever the arguments, a timestamp cutoff included.
C26_FiltersLeaveSnapshot ==
    (engine.stage = "returned"
     /\ engine.call \in {"participants", "labels", "jira", "inactive"}) =>
        engine.dfs = engine.dfs0

\* C23: with exclude_inactive the inactivity filter of _mine keeps a pull
\* request exactly when one of its events (creation, closure, review, review
\* request, comment, commit, release) lies in [time_from, time_to]; without
\* exclude_inactive it drops nothing.
C23_InactiveDropped ==
    (engine.stage = "returned" /\ engine.call = "_mine") =>
        LET time_from == Timestamp(engine.date_from)
            time_to == Timestamp(engine.date_to)
            inside(t) == Ge(t, time_from) /\ Le(t, time_to)
            events(pr) ==
                {pr.created_at, pr.closed_at}
                \cup {r.submitted_at : r \in {x \in engine.dfs0.reviews : x.pr = pr.node_id}}
                \cup {r.created_at :
                        r \in {x \in engine.dfs0.review_requests : x.pr = pr.node_id}}
                \cup {r.created_at : r \in {x \in engine.dfs0.comments : x.pr = pr.node_id}}
                \cup {r.committed_date : r \in {x \in engine.dfs0.commits : x.pr = pr.node_id}}
                \cup {r.published_at : r \in {x \in engine.dfs0.releases : x.pr = pr.node_id}}
        IN engine.inactive =
              IF engine.exclude_inactive
              THEN {pr.node_id : pr \in {x \in engine.dfs0.prs :
                                           \A t \in events(x) : ~inside(t)}}
              ELSE {}

\* C24: every item that the iteration of the list miner yields has at least
\* one of the requested properties among its properties, also when the pull
\* request as of time_to differs from the pull request of today.
C24_YieldedHasRequestedProperty ==
    \A k \in 1..Len(listing.yielded) :
        listing.yielded[k].properties \cap listing.properties # {}

(***************************************************************************)
(* PullRequestMiner.__iter__ on a snapshot of the pull requests, of the     *)
(* reviews (index: pull request node id, review node id) and of the         *)
(* releases (index: pull request node id).  The node ids are texts, the     *)
(* frames are sequences of rows.                                            *)
(***************************************************************************)
\* a < b for texts, as numpy compares "U" values
RECURSIVE str_lt(_, _)
str_lt(a, b) ==
    LET ord(c) == CASE c = "a" -> 97 [] c = "b" -> 98 [] c = "c" -> 99
    IN IF b = <<>> THEN FALSE
       ELSE IF a = <<>> THEN TRUE
       ELSE IF a[1] = b[1] THEN str_lt(Tail(a), Tail(b))
       ELSE ord(a[1]) < ord(b[1])

\* node_ids + df.index.get_level_values(1).values for an index of two levels
order_keys(df, nlevels) ==
    [k \in 1..Len(df) |-> IF nlevels > 1 THEN df[k].pr \o df[k].node_id ELSE df[k].pr]

\* iter(zip(keys, groups)) of one frame: the sequence of <<key, group>>, a group
\* being the sequence of the positions of its rows in the frame
grouped_df_iter(df, nlevels) ==
    LET n == Len(df)
        keys_of_rows == order_keys(df, nlevels)
        \* np.argsort(order_keys); the order keys of the model are distinct
        node_ids_order ==
            CHOOSE o \in [1..n -> 1..n] :
                /\ \A k, l \in 1..n : k # l => o[k] # o[l]
                /\ \A k \in 1..(n - 1) : ~str_lt(keys_of_rows[o[k + 1]], keys_of_rows[o[k]])
        node_ids == [k \in 1..n |-> df[node_ids_order[k]].pr]
        node_ids_backtrack == node_ids_order
        \* np.unique(node_ids, return_counts=True)[1]: the counts of the distinct
        \* node ids in ascending order of the node ids
        distinct == {node_ids[k] : k \in 1..n}
        rank(u) == Cardinality({v \in distinct : str_lt(v, u)}) + 1
        node_ids_unique_counts ==
            [j \in 1..Cardinality(distinct) |->
                Cardinality({k \in 1..n : rank(node_ids[k]) = j})]
        \* node_ids_group_counts[j] of the source is cumulated(j) here, 0-based
        cumulated(j) == Cardinality({k \in 1..n : rank(node_ids[k]) <= j})
    IN [j \in 1..Cardinality(distinct) |->
           <<node_ids[cumulated(j - 1) + 1],
             SubSeq(node_ids_backtrack, cumulated(j - 1) + 1, cumulated(j))>>]

is_monotonic_increasing(index) ==
    \A k \in 1..(Len(index) - 1) : ~str_lt(index[k + 1], index[k])

\* the body of the loop over prs.itertuples() for the pull request at pos
MinedPullRequest_items(e, pos) ==
    LET pr_node_id == e.prs[pos]
        hit(k) == /\ e.states[k] <= Len(e.iters[k])
                  /\ e.iters[k][e.states[k]][1] = pr_node_id
        gdf(k) == e.iters[k][e.states[k]][2]
    IN [items |-> [pr |-> pr_node_id,
                   reviews |-> IF hit("reviews")
                               THEN {e.reviews[gdf("reviews")[x]] :
                                        x \in 1..Len(gdf("reviews"))}
                               ELSE {},
                   release |-> IF hit("release") THEN Some(e.releases[gdf("release")[1]])
                               ELSE Absent],
        states |-> [k \in {"reviews", "release"} |->
                       IF hit(k) THEN e.states[k] + 1 ELSE e.states[k]]]

MinerIterStart ==
    /\ engine.stage = "called"
    /\ engine' = [engine EXCEPT
                     !.iters = [reviews |-> grouped_df_iter(engine.reviews, 2),
                                release |-> grouped_df_iter(engine.releases, 1)],
                     !.stage = IF is_monotonic_increasing(engine.prs) THEN "iterating"
                               ELSE "IndexError"]
    /\ UNCHANGED <<cacheVars, mineVars, fetch, mined_pr, extracted, listing, compat, keyed>>

MinerIterYield ==
    /\ engine.stage = "iterating"
    /\ Len(engine.yielded) < Len(engine.prs)
    /\ LET body == MinedPullRequest_items(engine, Len(engine.yielded) + 1)
       IN engine' = [engine EXCEPT !.yielded = Append(@, body.items),
                                   !.states = body.states]
    /\ UNCHANGED <<cacheVars, mineVars, fetch, mined_pr, extracted, listing, compat, keyed>>

MinerIterStop ==
    /\ engine.stage = "iterating"
    /\ Len(engine.yielded) = Len(engine.prs)
    /\ engine' = [engine EXCEPT !.stage = "exhausted"]
    /\ UNCHANGED <<cacheVars, mineVars, fetch, mined_pr, extracted, listing, compat, keyed>>

\* the snapshots: every row of a sub-table belongs to a pull request of prs
IteratedSnapshots ==
    LET a == <<"a">>
        ab == <<"a", "b">>
        b == <<"b">>
        SeqOf(set) ==
            CHOOSE q \in [1..Cardinality(set) -> set] :
                \A k, l \in 1..Cardinality(set) : k # l => q[k] # q[l]
        indexes == {<<a>>, <<ab>>, <<a, ab>>, <<a, b>>, <<ab, b>>, <<a, ab, b>>, <<b, a>>}
        Snapshot(prs, reviews, releases) ==
            [call |-> "__iter__", stage |-> "called", prs |-> prs,
             reviews |-> SeqOf(reviews), releases |-> SeqOf(releases),
             iters |-> <<>>, states |-> [k \in {"reviews", "release"} |-> 1],
             yielded |-> <<>>]
    IN UNION {{Snapshot(prs, reviews, releases) :
                  reviews \in SUBSET {[pr |-> prs[k], node_id |-> n] :
                                         k \in 1..Len(prs), n \in {<<"a">>, <<"c">>}},
                  releases \in SUBSET {[pr |-> prs[k]] : k \in 1..Len(prs)}}
              : prs \in indexes}

MinerIterInit ==
    /\ memcached = <<>>
    /\ now = 0
    /\ refresh_on_access = FALSE
    /\ postprocess = FALSE
    /\ pc = <<>>
    /\ args = <<>>
    /\ local = <<>>
    /\ trace = <<>>
    /\ session = <<>>
    /\ miner = <<>>
    /\ facts = {}
    /\ last = <<>>
    /\ dropped = {}
    /\ calls = 0
    /\ drops = 0
    /\ fetch = <<>>
    /\ mined_pr = <<>>
    /\ extracted = <<>>
    /\ listing = <<>>
    /\ compat = <<>>
    /\ keyed = <<>>
    /\ engine \in IteratedSnapshots

MinerIterNext ==
    \/ MinerIterStart
    \/ MinerIterYield
    \/ MinerIterStop

SpecIter == MinerIterInit /\ [][MinerIterNext]_vars

\* C30: the iteration over a miner whose prs index is sorted ascending yields
\* one record per pull request, in the order of the index, and the record of
\* a pull request holds exactly the rows of reviews and releases whose first
\* index level is its node id, also when some pull requests have no rows.
C30_IterationYieldsOwnRows ==
    /\ \A k \in 1..Len(engine.yielded) :
          /\ engine.yielded[k].pr = engine.prs[k]
          /\ engine.yielded[k].reviews = {r \in Rows(engine.reviews) : r.pr = engine.prs[k]}
          /\ engine.yielded[k].release =
                 IF \E r \in Rows(engine.releases) : r.pr = engine.prs[k]
                 THEN Some([pr |-> engine.prs[k]]) ELSE Absent
    /\ engine.stage = "exhausted" => Len(engine.yielded) = Len(engine.prs)
    /\ is_monotonic_increasing(engine.prs) => engine.stage # "IndexError"

(***************************************************************************)
(* The cache key of two calls of one @cached function of two str arguments *)
(* with key=lambda a, b: (a, b).                                           *)
(***************************************************************************)
MaxKeyLen == 2

KeyTuples ==
    LET KeyChars == {"a", "|", "%"}
        KeyTexts == UNION {[1..n -> KeyChars] : n \in 0..MaxKeyLen}
    IN {<<[str |-> a], [str |-> b]>> : a \in KeyTexts, b \in KeyTexts}

WrappedCachedKeys ==
    /\ keyed.stage = "called"
    /\ keyed' = [keyed EXCEPT !.stage = "keyed",
                              !.left_key = wrapped_cached_cache_key(<<"f">>, keyed.left),
                              !.right_key = wrapped_cached_cache_key(<<"f">>, keyed.right)]
    /\ UNCHANGED <<cacheVars, mineVars, fetch, mined_pr, extracted, listing, compat, engine>>

KeyInit ==
    /\ memcached = <<>>
    /\ now = 0
    /\ refresh_on_access = FALSE
    /\ postprocess = FALSE
    /\ pc = <<>>
    /\ args = <<>>
    /\ local = <<>>
    /\ trace = <<>>
    /\ session = <<>>
    /\ miner = <<>>
    /\ facts = {}
    /\ last = <<>>
    /\ dropped = {}
    /\ calls = 0
    /\ drops = 0
    /\ fetch = <<>>
    /\ mined_pr = <<>>
    /\ extracted = <<>>
    /\ listing = <<>>
    /\ compat = <<>>
    /\ engine = <<>>
    /\ keyed \in [stage : {"called"}, left : KeyTuples, right : KeyTuples,
                   left_key : {Absent}, right_key : {Absent}]

KeyNext == WrappedCachedKeys

SpecKey == KeyInit /\ [][KeyNext]_vars

\* C29: two calls of the same @cached function whose key tuples differ, and
\* for both of which a cache key is computed, get different cache keys (the
\* hash being collision-free).
C29_DifferentTuplesDifferentKeys ==
    (/\ keyed.stage = "keyed"
     /\ keyed.left # keyed.right
     /\ keyed.left_key # Absent /\ keyed.right_key # Absent) =>
        keyed.left_key # keyed.right_key

====
